---- MODULE Spec2Model ----
(***************************************************************************)
(* Resource lifetime and descriptor management of the vgpu / vgfx          *)
(* abstraction layer: the Direct3D12 device (frame pacer, deferred         *)
(* destruction, descriptor allocator, bind groups) and the Vulkan          *)
(* renderer (frame pacer, deferred destruction).                           *)
(***************************************************************************)
EXTENDS Integers, Sequences, FiniteSets, TLC

(***************************************************************************)
(* Program constants.                                                      *)
(***************************************************************************)
\* VGPU_MAX_INFLIGHT_FRAMES / VGFX_MAX_INFLIGHT_FRAMES
MAX_INFLIGHT_FRAMES == 2

\* The sentinel the frame counter is set to at shutdown.  The counter is a
\* uint64_t; no run inside the bounds brings a frame number within
\* MAX_INFLIGHT_FRAMES of the sentinel, so the sentinel is represented by the
\* largest integer the model checker can hold.
UINT64_MAX == 2147483647

\* _VGPUCommandQueue_Count: Graphics, Compute, Copy
Queues == {"Graphics", "Compute", "Copy"}

(***************************************************************************)
(* Bounds of the model.                                                    *)
(***************************************************************************)
\* number of Submit / vulkan_frame calls explored
MaxFrames == 6
\* number of native handles whose life is followed
NumHandles == 2

Handles == 1..NumHandles

Backends == {"d3d12", "vulkan"}

\* the Vulkan deletion queues, in the order vulkan_ProcessDeletionQueue drains them
VkKinds == <<"destroyedBuffers", "destroyedImagesQueue", "destroyedImageViews",
             "destroyedSamplers", "destroyedFramebuffers", "destroyedPipelines",
             "destroyedDescriptorPools", "destroyedQueryPools">>

VkKindSet == {VkKinds[i] : i \in 1..Len(VkKinds)}

VARIABLES
    backend,             \* which backend the device was created with
    pc,                  \* position of the CPU thread that drives the device
    frameCount,          \* D3D12Device::frameCount / VGFXVulkanRenderer::frameCount
    frameIndex,          \* ...::frameIndex
    submitted,           \* per queue: number of submissions handed to the GPU
    gpuDone,             \* per queue: number of submissions the GPU has finished
    shuttingDown,        \* D3D12Device::shuttingDown
    deferredReleases,    \* D3D12Device::deferredReleases
    deferredAllocations, \* D3D12Device::deferredAllocations
    frameFences,         \* D3D12Queue::frameFences, completed value per queue and slot
    destroyed,           \* VGFXVulkanRenderer::destroyed* deques, by kind
    frames,              \* VGFXVulkanRenderer::frames[i].fence, TRUE = signaled
    res,                 \* per handle: what happened to the native object
    lastOp               \* the operation that produced the current state

deviceVars == <<backend, pc, frameCount, frameIndex, submitted, gpuDone, shuttingDown,
                deferredReleases, deferredAllocations, frameFences, destroyed,
                frames, res, lastOp>>

\* One D3D12DescriptorAllocator and the descriptor ranges its callers hold.
VARIABLES
    allocator,           \* the members of the D3D12DescriptorAllocator
    live,                \* the ranges handed out and not yet given back, by base index
    lastAlloc            \* what the last AllocateDescriptors call did and returned

allocVars == <<allocator, live, lastAlloc>>

\* One bind group layout, one bind group made from it, and the two
\* shader-visible heaps of the device its tables live in.
VARIABLES
    bindGroupLayout,        \* the D3D12BindGroupLayout
    bindGroup,              \* the D3D12BindGroup
    shaderResourceViewHeap, \* D3D12Device::shaderResourceViewHeap
    samplerHeap,            \* D3D12Device::samplerHeap
    bindEntries,            \* the entries the last Update was given
    bindGroupsCreated       \* the number of vgpuCreateBindGroup calls so far

bindVars == <<bindGroupLayout, bindGroup, shaderResourceViewHeap, samplerHeap, bindEntries,
              bindGroupsCreated>>

\* The upload ring of the D3D12 device: the staging contexts, the upload
\* queue that runs their copies and the three queues that wait for them.
VARIABLES
    uploadFreeList,      \* D3D12Device::uploadFreeList
    uploadHeld,          \* the contexts UploadAllocate returned, not yet submitted
    uploadSubmitting,    \* the contexts inside UploadSubmit, past the unlock
    uploadCreated,       \* how many contexts (and staging buffers) were created
    uploadFence,         \* the value of each context's ID3D12Fence
    uploadCommandQueue,  \* the copies the upload queue has not run yet
    gpuQueues,           \* the Waits the graphics, compute and copy queues are not past yet
    uploadCopied,        \* the copies that have completed, as <<context, use>>
    uploadReleased,      \* the staging buffers that were released
    uploadShutDown       \* whether ~D3D12Device released the upload ring

uploadVars == <<uploadFreeList, uploadHeld, uploadSubmitting, uploadCreated, uploadFence,
                uploadCommandQueue, gpuQueues, uploadCopied, uploadReleased,
                uploadShutDown>>

\* One window, its swapchain and the texture wrappers of its backbuffers.
VARIABLES
    window,              \* the client size of the window, <<width, height>>
    swapChain,           \* the D3D12SwapChain / VulkanSwapChain
    textures,            \* per handle: the wrapper of the backbuffer that owns it
    acquired,            \* the command buffer's swapChains list holds the swapchain
    submitCalls,         \* number of Submit calls made
    lastAcquire,         \* what the last AcquireSwapchainTexture call saw and returned
    tickets              \* the value the last Submit returned and the largest before it

presentVars == <<window, swapChain, textures, acquired, submitCalls, lastAcquire, tickets>>

\* The barrier batch of one command buffer.
VARIABLES
    numBarriersToFlush,  \* D3D12CommandBuffer::numBarriersToFlush
    resourceState,       \* D3D12Resource::state of each resource
    lastFlush,           \* the size of the batch the last call handed to ResourceBarrier, or 0
    commandBufferState,  \* "recording" after Begin, "submit" inside Submit, "closed" after it
    lastCommand          \* the draw or dispatch the last call recorded, or "none"

barrierVars == <<numBarriersToFlush, resourceState, lastFlush, commandBufferState, lastCommand>>

\* The threads that call into one descriptor allocator.
VARIABLES
    allocatorMutex,      \* D3D12DescriptorAllocator::mutex: the thread that holds it, or 0
    allocatorThread,     \* per thread: where it is inside AllocateDescriptors
    lastRead             \* what the last call read or used, when it was one that takes no lock

lockVars == <<allocatorMutex, allocatorThread, lastRead>>

\* The threads that destroy resources while the frame thread runs.
VARIABLES
    destroyMutex,        \* D3D12Device::destroyMutex: the thread that holds it, or 0
    destroyThread        \* per thread: where it is inside DeferDestroy or ProcessDeletionQueue

destroyVars == <<destroyMutex, destroyThread>>

\* The pool of command buffers and the threads that check buffers out.
VARIABLES
    cmdBuffersLocker,    \* D3D12Device::cmdBuffersLocker: the thread that holds it, or 0
    cmdBuffersCount,     \* D3D12Device::cmdBuffersCount
    commandBuffersPool,  \* D3D12Device::commandBuffersPool: the state of each buffer
    poolThread,          \* per thread: where it is inside BeginCommandBuffer
    handedOut            \* the BeginCommandBuffer calls that returned since the last Submit

poolVars == <<cmdBuffersLocker, cmdBuffersCount, commandBuffersPool, poolThread, handedOut>>

\* A command buffer that binds descriptor tables, and the GPU that reads them.
VARIABLES
    boundTable,          \* D3D12CommandBuffer::boundBindGroups[0]: the table of the bind group set
    gpuReading,          \* the tables the unfinished submissions read, oldest first
    recording            \* is the command buffer between Begin and Submit

reuseVars == <<boundTable, gpuReading, recording>>

\* The command lists a Submit call stages in the queues before it executes them.
VARIABLES
    submitCommandLists,  \* D3D12Queue::submitCommandLists of each queue
    begun,               \* the command buffers handed out since the last Submit: command list and queue
    stagePoolCount,      \* D3D12Device::cmdBuffersCount
    stageCalls,          \* number of Submit calls made
    lastSubmit           \* the last Submit call: did it return 0 after a failure, and its command lists

stageVars == <<submitCommandLists, begun, stagePoolCount, stageCalls, lastSubmit>>

\* The references a command buffer holds on the pipelines and bind groups set on it.
VARIABLES
    refCount,            \* the reference count of each pipeline and bind group
    currentPipeline,     \* D3D12CommandBuffer::currentPipeline
    boundBindGroups,     \* D3D12CommandBuffer::boundBindGroups, one per group index
    refBefore,           \* the reference counts before the first Set call since the last Reset
    refSets,             \* number of Set calls made
    lastRefOp            \* the last call on the command buffer

refVars == <<refCount, currentPipeline, boundBindGroups, refBefore, refSets, lastRefOp>>

\* The probe that tells whether a backend can be used, and the threads that call it.
VARIABLES
    available_initialized, \* static bool available_initialized of d3d12_isSupported / vulkan_isSupported
    available,             \* static bool available
    probeSupported,        \* would the probe find the libraries and a compatible device
    probeThread,           \* where each thread is in isSupported, what it returned, its calls
    probeRuns              \* number of times the probe itself has been started

probeVars == <<available_initialized, available, probeSupported, probeThread, probeRuns>>

threadVars == <<lockVars, destroyVars, poolVars, reuseVars, stageVars, refVars, probeVars>>

\* what each part of the program leaves alone
otherThanDevice == <<allocVars, bindVars, uploadVars, presentVars, barrierVars, threadVars>>
otherThanAlloc == <<deviceVars, bindVars, uploadVars, presentVars, barrierVars, threadVars>>
otherThanBind == <<deviceVars, allocVars, uploadVars, presentVars, barrierVars, threadVars>>
otherThanUpload == <<deviceVars, allocVars, bindVars, presentVars, barrierVars, threadVars>>
otherThanPresent == <<allocVars, bindVars, uploadVars, barrierVars, threadVars>>
otherThanBarrier == <<deviceVars, allocVars, bindVars, uploadVars, presentVars, threadVars>>
otherThanLock == <<deviceVars, bindVars, uploadVars, presentVars, barrierVars, destroyVars, poolVars, reuseVars,
    stageVars,
    refVars,
    probeVars>>
otherThanDestroy == <<allocVars, bindVars, uploadVars, presentVars, barrierVars, lockVars, poolVars, reuseVars,
    stageVars,
    refVars,
    probeVars>>
otherThanPool == <<deviceVars, allocVars, bindVars, uploadVars, presentVars, barrierVars, lockVars, destroyVars,
                  reuseVars,
    stageVars,
    refVars,
    probeVars>>
otherThanReuse == <<deviceVars, bindVars, uploadVars, presentVars, barrierVars, lockVars,
                   destroyVars, poolVars,
    stageVars,
    refVars,
    probeVars>>

otherThanStage == <<deviceVars, allocVars, bindVars, uploadVars, presentVars, barrierVars,
    lockVars, destroyVars, poolVars, reuseVars,
    refVars,
    probeVars>>

otherThanRef == <<deviceVars, allocVars, bindVars, uploadVars, presentVars, barrierVars,
    lockVars, destroyVars, poolVars, reuseVars, stageVars,
    probeVars>>

otherThanProbe == <<deviceVars, allocVars, bindVars, uploadVars, presentVars, barrierVars,
    lockVars, destroyVars, poolVars, reuseVars, stageVars, refVars>>

vars == <<deviceVars, allocVars, bindVars, uploadVars, presentVars, barrierVars, threadVars>>

Min(S) == CHOOSE x \in S : \A y \in S : x <= y

Slots == 0..(MAX_INFLIGHT_FRAMES - 1)

(***************************************************************************)
(* Bookkeeping of a native handle.  st is the state of the handle itself,  *)
(* alloc the state of its backing allocation; f the frame number stored    *)
(* with the queue entry, which is the number of submissions made before    *)
(* the handle was handed over; rf the frame counter at the moment of the   *)
(* release (arf the same for the allocation); busy tells whether at that   *)
(* moment some queue had not finished the first f submissions; n and an    *)
(* count the native release calls; by tells who released the handle.       *)
(* Handles are named in the order in which their owners are destroyed.     *)
(***************************************************************************)
NewHandle == [st |-> "live", alloc |-> "none", f |-> 0, rf |-> 0, arf |-> 0,
              busy |-> FALSE, n |-> 0, an |-> 0, by |-> "none"]

\* the queues work has been submitted to: all of them on D3D12
\* (Submit signals every queue), the graphics queue on Vulkan
ActiveQueues == IF backend = "vulkan" THEN {"Graphics"} ELSE Queues

GpuIdle == \A q \in ActiveQueues : gpuDone[q] = submitted[q]

GpuProgress == Min({gpuDone[q] : q \in ActiveQueues})

\* the next handle to be destroyed
NextHandle(h) == res[h].st = "live" /\ \A g \in Handles : g < h => res[g].st # "live"

\* the handles of the entries of a queue
EntryHandles(q) == {q[i].h : i \in 1..Len(q)}

(***************************************************************************)
(* The test of the while loops of ProcessDeletionQueue.                    *)
(***************************************************************************)
\* the test with <= in place of <
D3D12_Eligible_OneFrameEarly(entry, fc) == entry.frame + MAX_INFLIGHT_FRAMES <= fc

\* the test with the window one frame longer
D3D12_Eligible_OneFrameLate(entry, fc) == entry.frame + MAX_INFLIGHT_FRAMES + 1 < fc

D3D12_Eligible(entry, fc) == entry.frame + MAX_INFLIGHT_FRAMES < fc

vulkan_Eligible(entry, fc) == entry.frame + MAX_INFLIGHT_FRAMES < fc

\* a loop that tests the front entry once and pops at most that one
D3D12_Drain_FrontOnly(q, fc) ==
    IF q # <<>> /\ D3D12_Eligible(Head(q), fc) THEN Tail(q) ELSE q

\* one while loop of D3D12Device::ProcessDeletionQueue: pops from the front
\* while the front entry is eligible, stops at the first that is not
RECURSIVE D3D12_Drain(_, _)
D3D12_Drain(q, fc) ==
    IF q = <<>> THEN q
    ELSE IF D3D12_Eligible(Head(q), fc) THEN D3D12_Drain(Tail(q), fc)
    ELSE q

RECURSIVE vulkan_Drain(_, _)
vulkan_Drain(q, fc) ==
    IF q = <<>> THEN q
    ELSE IF vulkan_Eligible(Head(q), fc) THEN vulkan_Drain(Tail(q), fc)
    ELSE q

\* the entries a drain removed
Popped(before, after) == EntryHandles(before) \ EntryHandles(after)

\* bookkeeping of the release of the handles hs and allocations as
MarkReleased(r, hs, as, fc, how) ==
    [h \in Handles |->
        LET r1 == IF h \in hs
                  THEN [r[h] EXCEPT !.st = "released", !.rf = fc,
                                    !.busy = (GpuProgress < r[h].f),
                                    !.n = @ + 1, !.by = how]
                  ELSE r[h]
        IN IF h \in as THEN [r1 EXCEPT !.alloc = "released", !.arf = fc, !.an = @ + 1]
           ELSE r1]

(***************************************************************************)
(* Direct3D12 device.                                                      *)
(***************************************************************************)
\* D3D12Device::ProcessDeletionQueue on the queues qa (allocations) and qr
\* (resources) with the frame counter fc: the queues it leaves and the
\* bookkeeping of what it released.  The allocations are drained first.
D3D12_ProcessDeletionQueue(qa, qr, r, fc) ==
    LET na == D3D12_Drain(qa, fc)
        nr == D3D12_Drain(qr, fc)
    IN [qa |-> na, qr |-> nr,
        r |-> MarkReleased(r, Popped(qr, nr), Popped(qa, na), fc, "pdq")]

\* a DeferDestroy that queues whatever the state of the device is
DeferDestroy_Synchronous_Never == FALSE

\* if (shuttingDown || device == nullptr): device is set for the whole life
\* of a D3D12Device that Init returned
DeferDestroy_Synchronous == shuttingDown

\* D3D12Device::DeferDestroy(resource, allocation) of the live handle h,
\* called from the destructor of the object that owns it
D3D12_DeferDestroy(h, withAllocation) ==
    /\ backend = "d3d12"
    /\ pc \in {"idle", "shutdown"}
    /\ NextHandle(h)
    /\ IF DeferDestroy_Synchronous
       THEN /\ res' = MarkReleased([res EXCEPT ![h].f = frameCount], {h},
                                   IF withAllocation THEN {h} ELSE {}, frameCount, "sync")
            /\ UNCHANGED <<deferredReleases, deferredAllocations>>
       ELSE /\ deferredReleases' = Append(deferredReleases, [h |-> h, frame |-> frameCount])
            /\ deferredAllocations' =
                  IF withAllocation
                  THEN Append(deferredAllocations, [h |-> h, frame |-> frameCount])
                  ELSE deferredAllocations
            /\ res' = [res EXCEPT ![h].st = "queued", ![h].f = frameCount,
                                  ![h].alloc = IF withAllocation THEN "queued" ELSE "none"]
    /\ lastOp' = "other"
    /\ UNCHANGED <<backend, pc, frameCount, frameIndex, submitted, gpuDone, shuttingDown,
                   frameFences, destroyed, frames>>
    /\ UNCHANGED otherThanDevice

\* D3D12Device::Submit up to the point where it may block: the command
\* lists are executed and every queue signals its fence of the current frame
\* slot with the value 1, then the frame counter advances
D3D12_SubmitExecute ==
    /\ backend = "d3d12"
    /\ pc = "idle"
    /\ frameCount < MaxFrames
    /\ submitted' = [q \in Queues |-> submitted[q] + 1]
    /\ frameCount' = frameCount + 1
    /\ frameIndex' = (frameCount + 1) % MAX_INFLIGHT_FRAMES
    /\ pc' = "submit_wait"
    /\ lastOp' = "other"
    /\ UNCHANGED <<backend, gpuDone, shuttingDown, deferredReleases, deferredAllocations,
                   frameFences, destroyed, frames, res>>
    /\ UNCHANGED otherThanDevice

\* the wait of Submit on the fences of the new frame slot is over
D3D12_FrameFencesReached ==
    \A q \in Queues :
        ~(frameCount >= MAX_INFLIGHT_FRAMES /\ frameFences[q][frameIndex] < 1)

\* the rest of D3D12Device::Submit: once no fence of the new frame slot is
\* waited for any more, ProcessDeletionQueue runs and Submit returns
D3D12_SubmitFinish ==
    /\ backend = "d3d12"
    /\ pc = "submit_wait"
    /\ D3D12_FrameFencesReached
    /\ LET p == D3D12_ProcessDeletionQueue(deferredAllocations, deferredReleases, res, frameCount)
       IN /\ deferredAllocations' = p.qa
          /\ deferredReleases' = p.qr
          /\ res' = p.r
    /\ pc' = "idle"
    /\ lastOp' = "pdq"
    /\ UNCHANGED <<backend, frameCount, frameIndex, submitted, gpuDone, shuttingDown,
                   frameFences, destroyed, frames>>
    /\ UNCHANGED otherThanDevice

\* D3D12Device::WaitIdle is entered; it blocks until every queue has drained
D3D12_WaitIdleBegin ==
    /\ backend = "d3d12"
    /\ pc = "idle"
    /\ pc' = "waitidle"
    /\ UNCHANGED <<backend, frameCount, frameIndex, submitted, gpuDone, shuttingDown,
                   deferredReleases, deferredAllocations, frameFences, destroyed,
                   frames, res, lastOp>>
    /\ UNCHANGED otherThanDevice

\* D3D12Device::WaitIdle returns: the GPU is idle and ProcessDeletionQueue ran
D3D12_WaitIdle ==
    /\ backend = "d3d12"
    /\ pc = "waitidle"
    /\ GpuIdle
    /\ LET p == D3D12_ProcessDeletionQueue(deferredAllocations, deferredReleases, res, frameCount)
       IN /\ deferredAllocations' = p.qa
          /\ deferredReleases' = p.qr
          /\ res' = p.r
    /\ pc' = "idle"
    /\ lastOp' = "pdq"
    /\ UNCHANGED <<backend, frameCount, frameIndex, submitted, gpuDone, shuttingDown,
                   frameFences, destroyed, frames>>
    /\ UNCHANGED otherThanDevice

\* D3D12Device::~D3D12Device is entered; its WaitIdle blocks
D3D12_DestructorBegin ==
    /\ backend = "d3d12"
    /\ pc = "idle"
    /\ pc' = "dtor_wait"
    /\ UNCHANGED <<backend, frameCount, frameIndex, submitted, gpuDone, shuttingDown,
                   deferredReleases, deferredAllocations, frameFences, destroyed,
                   frames, res, lastOp>>
    /\ UNCHANGED otherThanDevice

\* the destructor without the sentinel: only the entries that are eligible
\* at the current frame counter are released
D3D12_Destructor_NoSentinel ==
    /\ backend = "d3d12"
    /\ pc = "dtor_wait"
    /\ GpuIdle
    /\ LET p1 == D3D12_ProcessDeletionQueue(deferredAllocations, deferredReleases, res, frameCount)
       IN /\ deferredAllocations' = p1.qa
          /\ deferredReleases' = p1.qr
          /\ res' = p1.r
    /\ shuttingDown' = TRUE
    /\ frameCount' = 0
    /\ pc' = "shutdown"
    /\ lastOp' = "shutdown"
    /\ UNCHANGED <<backend, frameIndex, submitted, gpuDone, frameFences, destroyed, frames>>
    /\ UNCHANGED otherThanDevice

\* D3D12Device::~D3D12Device once the GPU is idle: the ProcessDeletionQueue
\* of WaitIdle, then shuttingDown = true, the frame counter at the sentinel,
\* ProcessDeletionQueue, and the counter back to 0
D3D12_Destructor ==
    /\ backend = "d3d12"
    /\ pc = "dtor_wait"
    /\ GpuIdle
    /\ LET p1 == D3D12_ProcessDeletionQueue(deferredAllocations, deferredReleases, res, frameCount)
           p2 == D3D12_ProcessDeletionQueue(p1.qa, p1.qr, p1.r, UINT64_MAX)
       IN /\ deferredAllocations' = p2.qa
          /\ deferredReleases' = p2.qr
          /\ res' = p2.r
    /\ shuttingDown' = TRUE
    /\ frameCount' = 0
    /\ pc' = "shutdown"
    /\ lastOp' = "shutdown"
    /\ UNCHANGED <<backend, frameIndex, submitted, gpuDone, frameFences, destroyed, frames>>
    /\ UNCHANGED otherThanDevice

\* the GPU finishes the oldest unfinished submission of queue q and executes
\* the fence signal that follows it
GpuComplete(q) ==
    /\ q \in ActiveQueues
    /\ gpuDone[q] < submitted[q]
    /\ gpuDone' = [gpuDone EXCEPT ![q] = @ + 1]
    /\ IF backend = "d3d12"
       THEN /\ frameFences' = [frameFences EXCEPT ![q][gpuDone[q] % MAX_INFLIGHT_FRAMES] = 1]
            /\ UNCHANGED frames
       ELSE /\ frames' = [frames EXCEPT ![gpuDone[q] % MAX_INFLIGHT_FRAMES] = TRUE]
            /\ UNCHANGED frameFences
    /\ UNCHANGED <<backend, pc, frameCount, frameIndex, submitted, shuttingDown,
                   deferredReleases, deferredAllocations, destroyed, res, lastOp>>
    /\ UNCHANGED otherThanDevice

(***************************************************************************)
(* Vulkan renderer.                                                        *)
(***************************************************************************)
\* the largest number of backbuffers of a swapchain
MaxBackBuffers == 1

\* vulkan_ProcessDeletionQueue with the frame counter fc: every deque is
\* drained from its front
vulkan_ProcessDeletionQueue(d, r, fc) ==
    LET nd == [k \in VkKindSet |-> vulkan_Drain(d[k], fc)]
        hs == UNION {Popped(d[k], nd[k]) : k \in VkKindSet}
    IN [d |-> nd, r |-> MarkReleased(r, hs, {}, fc, "pdq")]

\* vulkan_destroyTexture: the image and its allocation are queued as one
\* entry when the texture owns an allocation; the wrapper is deleted
vulkan_destroyTexture(h, hasAllocation) ==
    /\ backend = "vulkan"
    /\ pc = "idle"
    /\ NextHandle(h)
    /\ IF hasAllocation
       THEN /\ destroyed' = [destroyed EXCEPT !["destroyedImagesQueue"] =
                                Append(@, [h |-> h, frame |-> frameCount])]
            /\ res' = [res EXCEPT ![h].st = "queued", ![h].f = frameCount]
       ELSE /\ res' = [res EXCEPT ![h].st = "dropped"]
            /\ UNCHANGED destroyed
    /\ lastOp' = "other"
    /\ UNCHANGED <<backend, pc, frameCount, frameIndex, submitted, gpuDone, shuttingDown,
                   deferredReleases, deferredAllocations, frameFences, frames>>
    /\ UNCHANGED otherThanDevice

\* the loop of vulkan_destroySwapChain over the backbuffers bb, a sequence
\* of <<image view, framebuffer>> pairs
RECURSIVE vulkan_PushBackBuffers(_, _, _)
vulkan_PushBackBuffers(d, bb, fc) ==
    IF bb = <<>> THEN d
    ELSE vulkan_PushBackBuffers(
            [d EXCEPT !["destroyedImageViews"] = Append(@, [h |-> Head(bb)[1], frame |-> fc]),
                      !["destroyedFramebuffers"] = Append(@, [h |-> Head(bb)[2], frame |-> fc])],
            Tail(bb), fc)

\* the backbuffer lists a swapchain can own: the next 2n live handles, the
\* image view and the framebuffer of each backbuffer
BackBufferLists ==
    LET alive == {h \in Handles : res[h].st = "live"}
        first == IF alive = {} THEN 0 ELSE Min(alive)
    IN {[i \in 1..n |-> <<first + 2 * (i - 1), first + 2 * (i - 1) + 1>>] :
            n \in {m \in 1..MaxBackBuffers : alive # {} /\ first + 2 * m - 1 \in alive}}

\* vulkan_destroySwapChain
vulkan_destroySwapChain(bb) ==
    /\ backend = "vulkan"
    /\ pc = "idle"
    /\ destroyed' = vulkan_PushBackBuffers(destroyed, bb, frameCount)
    /\ res' = [h \in Handles |->
                 IF \E i \in 1..Len(bb) : h \in {bb[i][1], bb[i][2]}
                 THEN [res[h] EXCEPT !.st = "queued", !.f = frameCount]
                 ELSE res[h]]
    /\ lastOp' = "other"
    /\ UNCHANGED <<backend, pc, frameCount, frameIndex, submitted, gpuDone, shuttingDown,
                   deferredReleases, deferredAllocations, frameFences, frames>>
    /\ UNCHANGED otherThanDevice

\* vulkan_frame up to its wait: the frame's command buffers are submitted to
\* the graphics queue with the fence of the current slot, the counter advances
vulkan_frameSubmit ==
    /\ backend = "vulkan"
    /\ pc = "idle"
    /\ frameCount < MaxFrames
    /\ submitted' = [submitted EXCEPT !["Graphics"] = @ + 1]
    /\ frameCount' = frameCount + 1
    /\ frameIndex' = (frameCount + 1) % MAX_INFLIGHT_FRAMES
    /\ pc' = "frame_wait"
    /\ lastOp' = "other"
    /\ UNCHANGED <<backend, gpuDone, shuttingDown, deferredReleases, deferredAllocations,
                   frameFences, destroyed, frames, res>>
    /\ UNCHANGED otherThanDevice

\* the rest of vulkan_frame: vkWaitForFences on the new slot's fence has
\* returned; the fence is reset and the deletion queues are processed
vulkan_frame ==
    /\ backend = "vulkan"
    /\ pc = "frame_wait"
    /\ frameCount >= MAX_INFLIGHT_FRAMES => frames[frameIndex]
    /\ frames' = IF frameCount >= MAX_INFLIGHT_FRAMES
                 THEN [frames EXCEPT ![frameIndex] = FALSE]
                 ELSE frames
    /\ LET p == vulkan_ProcessDeletionQueue(destroyed, res, frameCount)
       IN /\ destroyed' = p.d
          /\ res' = p.r
    /\ pc' = "idle"
    /\ lastOp' = "pdq"
    /\ UNCHANGED <<backend, frameCount, frameIndex, submitted, gpuDone, shuttingDown,
                   deferredReleases, deferredAllocations, frameFences>>
    /\ UNCHANGED otherThanDevice

\* vulkan_destroyDevice is entered; vkDeviceWaitIdle blocks
vulkan_destroyDeviceBegin ==
    /\ backend = "vulkan"
    /\ pc = "idle"
    /\ pc' = "dtor_wait"
    /\ UNCHANGED <<backend, frameCount, frameIndex, submitted, gpuDone, shuttingDown,
                   deferredReleases, deferredAllocations, frameFences, destroyed,
                   frames, res, lastOp>>
    /\ UNCHANGED otherThanDevice

\* vulkan_destroyDevice once the device is idle: the frame counter at the
\* sentinel, vulkan_ProcessDeletionQueue, the counter back to 0
vulkan_destroyDevice ==
    /\ backend = "vulkan"
    /\ pc = "dtor_wait"
    /\ GpuIdle
    /\ LET p == vulkan_ProcessDeletionQueue(destroyed, res, UINT64_MAX)
       IN /\ destroyed' = p.d
          /\ res' = p.r
    /\ frameCount' = 0
    /\ pc' = "shutdown"
    /\ lastOp' = "shutdown"
    /\ UNCHANGED <<backend, frameIndex, submitted, gpuDone, shuttingDown,
                   deferredReleases, deferredAllocations, frameFences, frames>>
    /\ UNCHANGED otherThanDevice

(***************************************************************************)
(* The device, from its creation to its destruction.                       *)
(***************************************************************************)
DeviceInit ==
    /\ backend \in Backends
    /\ pc = "idle"
    /\ frameCount = 0
    /\ frameIndex = 0
    /\ submitted = [q \in Queues |-> 0]
    /\ gpuDone = [q \in Queues |-> 0]
    /\ shuttingDown = FALSE
    /\ deferredReleases = <<>>
    /\ deferredAllocations = <<>>
    /\ frameFences = [q \in Queues |-> [s \in Slots |-> 0]]
    /\ destroyed = [k \in VkKindSet |-> <<>>]
    /\ frames = [s \in Slots |-> FALSE]
    /\ res = [h \in Handles |-> NewHandle]
    /\ lastOp = "other"

DeviceNext ==
    \/ \E h \in Handles, a \in BOOLEAN : D3D12_DeferDestroy(h, a)
    \/ D3D12_SubmitExecute
    \/ D3D12_SubmitFinish
    \/ D3D12_WaitIdleBegin
    \/ D3D12_WaitIdle
    \/ D3D12_DestructorBegin
    \/ D3D12_Destructor
    \/ \E h \in Handles, a \in BOOLEAN : vulkan_destroyTexture(h, a)
    \/ \E bb \in BackBufferLists : vulkan_destroySwapChain(bb)
    \/ vulkan_frameSubmit
    \/ vulkan_frame
    \/ vulkan_destroyDeviceBegin
    \/ vulkan_destroyDevice
    \/ \E q \in Queues : GpuComplete(q)


(***************************************************************************)
(* D3D12DescriptorAllocator: a growable descriptor heap with an occupancy  *)
(* bitmap.  Heaps are numbered in the order they are created, 0 is         *)
(* nullptr; at most one CPU heap and one shader-visible heap exist at a    *)
(* time, the ones the members heap and shaderVisibleHeap point to.         *)
(***************************************************************************)
\* kInvalidDescriptorIndex = ~0u; DescriptorIndex is a uint32_t and no heap
\* inside the bounds comes near it, so it is represented by the largest
\* integer the model checker can hold.
kInvalidDescriptorIndex == 2147483647

\* largest heap capacity explored
MaxCapacity == 4
\* largest count passed to AllocateDescriptors
MaxCount == 2
\* largest number of ranges held by callers at a time
MaxLive == 4

\* the capacities the heaps are created with (1024, 256, 1000000, 2048 in
\* D3D12Device::Init), scaled down: a power of two and a number that is not
InitCapacities == {2, 3}

\* what a descriptor can hold: nothing yet, a view, or whatever a read of
\* released memory produced
Views == {"view"}

\* what CreateDescriptorHeap does inside AllocateResources
CreateOutcomes(a) ==
    {"ok", "fail_heap"} \cup (IF a.shaderVisible THEN {"fail_shader_visible"} ELSE {})

\* the member initialisers of the struct
D3D12DescriptorAllocator ==
    [shaderVisible |-> TRUE, numDescriptors |-> 0, allocatedDescriptors |-> <<>>,
     searchStart |-> 0, numAllocatedDescriptors |-> 0,
     heap |-> 0, shaderVisibleHeap |-> 0,
     startCpuHandle |-> 0, startCpuHandleShaderVisible |-> 0,
     descriptors |-> <<>>, shaderVisibleDescriptors |-> <<>>, created |-> 0]

\* smallest power of two that is not below x
RECURSIVE PowerOfTwoFrom(_, _)
PowerOfTwoFrom(p, x) == IF p >= x THEN p ELSE PowerOfTwoFrom(2 * p, x)

vgpuNextPowerOfTwo(x) == PowerOfTwoFrom(1, x)

\* std::vector<bool>::resize: the old flags stay, the new ones are false
Resize(flags, n) == [i \in 1..n |-> IF i <= Len(flags) THEN flags[i] ELSE FALSE]

\* allocatedDescriptors[index] = v for the indices of a range; a write past
\* the end of the vector does not become part of the vector
SetFlags(flags, baseIndex, count, v) ==
    [i \in 1..Len(flags) |->
        IF i - 1 >= baseIndex /\ i - 1 < baseIndex + count THEN v ELSE flags[i]]

\* allocatedDescriptors[index]; a read past the end of the vector is
\* undefined and yields oob
Flag(a, index, oob) ==
    IF index < Len(a.allocatedDescriptors) THEN a.allocatedDescriptors[index + 1] ELSE oob

\* does the start handle point into the heap the allocator holds
HandlesValid(a) ==
    /\ a.heap # 0
    /\ a.startCpuHandle = a.heap
    /\ a.shaderVisible => a.shaderVisibleHeap # 0
    /\ a.shaderVisible => a.startCpuHandleShaderVisible = a.shaderVisibleHeap

D3D12DescriptorAllocator_AllocateResources(a, numDescriptors_, outcome) ==
    LET released == [a EXCEPT !.heap = 0, !.shaderVisibleHeap = 0,
                              !.descriptors = <<>>, !.shaderVisibleDescriptors = <<>>,
                              !.numDescriptors = numDescriptors_]
        id == a.created + 1
        fresh == [i \in 1..numDescriptors_ |-> "uninit"]
        withHeap == [released EXCEPT !.heap = id, !.created = id, !.descriptors = fresh]
        withBoth == [withHeap EXCEPT !.shaderVisibleHeap = id,
                                     !.shaderVisibleDescriptors = fresh,
                                     !.startCpuHandleShaderVisible = id]
    IN  IF outcome = "fail_heap"
        THEN [a |-> released, ok |-> FALSE]
        ELSE IF a.shaderVisible /\ outcome = "fail_shader_visible"
        THEN [a |-> withHeap, ok |-> FALSE]
        ELSE [a |-> [(IF a.shaderVisible THEN withBoth ELSE withHeap) EXCEPT
                        !.startCpuHandle = id,
                        !.allocatedDescriptors = Resize(@, numDescriptors_)],
              ok |-> TRUE]

\* Init(device, heapType, numDescriptors_); VHR stops the program when the
\* heaps cannot be created
D3D12DescriptorAllocator_Init(shaderVisible_, numDescriptors_) ==
    D3D12DescriptorAllocator_AllocateResources(
        [D3D12DescriptorAllocator EXCEPT !.shaderVisible = shaderVisible_],
        numDescriptors_, "ok").a

\* Grow that asks for exactly the size it needs
D3D12DescriptorAllocator_Grow_ExactSize(a, minRequiredSize, outcome, uafIntact) ==
    LET oldSize == a.numDescriptors
        newSize == minRequiredSize
        oldHeap == a.heap
        r == D3D12DescriptorAllocator_AllocateResources(a, newSize, outcome)
        srcAlive == oldHeap # 0 /\ oldHeap = r.a.heap
        src == [i \in 1..oldSize |->
                   IF (srcAlive \/ uafIntact) /\ i <= Len(a.descriptors)
                   THEN a.descriptors[i] ELSE "garbage"]
        Copy(dst) == [i \in 1..Len(dst) |-> IF i <= oldSize THEN src[i] ELSE dst[i]]
    IN  IF ~r.ok
        THEN [a |-> r.a, ok |-> FALSE, srcAlive |-> TRUE]
        ELSE [a |-> [r.a EXCEPT !.descriptors = Copy(@),
                                !.shaderVisibleDescriptors =
                                    IF r.a.shaderVisibleHeap # 0 THEN Copy(@) ELSE @],
              ok |-> TRUE, srcAlive |-> srcAlive]

\* Grow copies oldSize descriptors out of oldHeap after AllocateResources
\* has run.  srcAlive tells whether oldHeap still exists at the copy; when it
\* does not, the read is a use after release and returns the old contents
\* (uafIntact) or garbage.
D3D12DescriptorAllocator_Grow(a, minRequiredSize, outcome, uafIntact) ==
    LET oldSize == a.numDescriptors
        newSize == vgpuNextPowerOfTwo(minRequiredSize)
        oldHeap == a.heap
        r == D3D12DescriptorAllocator_AllocateResources(a, newSize, outcome)
        srcAlive == oldHeap # 0 /\ oldHeap = r.a.heap
        src == [i \in 1..oldSize |->
                   IF (srcAlive \/ uafIntact) /\ i <= Len(a.descriptors)
                   THEN a.descriptors[i] ELSE "garbage"]
        Copy(dst) == [i \in 1..Len(dst) |-> IF i <= oldSize THEN src[i] ELSE dst[i]]
    IN  IF ~r.ok
        THEN [a |-> r.a, ok |-> FALSE, srcAlive |-> TRUE]
        ELSE [a |-> [r.a EXCEPT !.descriptors = Copy(@),
                                !.shaderVisibleDescriptors =
                                    IF r.a.shaderVisibleHeap # 0 THEN Copy(@) ELSE @],
              ok |-> TRUE, srcAlive |-> srcAlive]

\* the scan for count contiguous free indices, from index on
RECURSIVE FindRange(_, _, _, _, _)
FindRange(a, count, index, freeCount, oob) ==
    IF index >= a.numDescriptors
    THEN [found |-> FALSE, foundIndex |-> 0]
    ELSE LET fc == IF Flag(a, index, oob) THEN 0 ELSE freeCount + 1
         IN  IF fc >= count
             THEN [found |-> TRUE, foundIndex |-> index - count + 1]
             ELSE FindRange(a, count, index + 1, fc, oob)

\* an AllocateDescriptors that counts the descriptors before it grows
D3D12DescriptorAllocator_AllocateDescriptors_CountFirst(a, count, outcome, uafIntact, oob) ==
    LET f == FindRange(a, count, a.searchStart, 0, oob)
        g == D3D12DescriptorAllocator_Grow(a, a.numDescriptors + count, outcome, uafIntact)
        foundIndex == IF f.found THEN f.foundIndex ELSE a.numDescriptors
        base == IF f.found THEN a ELSE g.a
    IN  IF ~f.found /\ ~g.ok
        THEN [a |-> [g.a EXCEPT !.numAllocatedDescriptors = @ + count],
              index |-> kInvalidDescriptorIndex, grew |-> FALSE, srcAlive |-> TRUE]
        ELSE [a |-> [base EXCEPT
                        !.allocatedDescriptors = SetFlags(@, foundIndex, count, TRUE),
                        !.numAllocatedDescriptors = @ + count,
                        !.searchStart = foundIndex + count],
              index |-> foundIndex,
              grew |-> ~f.found,
              srcAlive |-> f.found \/ g.srcAlive]

D3D12DescriptorAllocator_AllocateDescriptors(a, count, outcome, uafIntact, oob) ==
    LET f == FindRange(a, count, a.searchStart, 0, oob)
        g == D3D12DescriptorAllocator_Grow(a, a.numDescriptors + count, outcome, uafIntact)
        foundIndex == IF f.found THEN f.foundIndex ELSE a.numDescriptors
        base == IF f.found THEN a ELSE g.a
    IN  IF ~f.found /\ ~g.ok
        THEN [a |-> g.a, index |-> kInvalidDescriptorIndex, grew |-> FALSE, srcAlive |-> TRUE]
        ELSE [a |-> [base EXCEPT
                        !.allocatedDescriptors = SetFlags(@, foundIndex, count, TRUE),
                        !.numAllocatedDescriptors = @ + count,
                        !.searchStart = foundIndex + count],
              index |-> foundIndex,
              grew |-> ~f.found,
              srcAlive |-> f.found \/ g.srcAlive]

D3D12DescriptorAllocator_ReleaseDescriptors(a, baseIndex, count) ==
    IF count = 0
    THEN a
    ELSE [a EXCEPT !.allocatedDescriptors = SetFlags(@, baseIndex, count, FALSE),
                   !.numAllocatedDescriptors = @ - count,
                   !.searchStart = IF @ > baseIndex THEN baseIndex ELSE @]

\* a view is created at GetCpuHandle(index)
D3D12DescriptorAllocator_CreateView(a, index, v) ==
    [a EXCEPT !.descriptors =
        [i \in 1..Len(@) |-> IF i - 1 = index THEN v ELSE @[i]]]

D3D12DescriptorAllocator_CopyToShaderVisibleHeap(a, index, count) ==
    [a EXCEPT !.shaderVisibleDescriptors =
        [i \in 1..Len(@) |->
            IF i - 1 >= index /\ i - 1 < index + count /\ i <= Len(a.descriptors)
            THEN a.descriptors[i] ELSE @[i]]]

\* the ranges callers hold, kept in the order of their base index
RECURSIVE InsertRange(_, _)
InsertRange(s, r) ==
    IF s = <<>> \/ r.index <= Head(s).index
    THEN <<r>> \o s
    ELSE <<Head(s)>> \o InsertRange(Tail(s), r)

RemoveAt(s, k) == [i \in 1..(Len(s) - 1) |-> IF i < k THEN s[i] ELSE s[i + 1]]

\* what the last call on the allocator was; afterRelease is the base index of
\* the range given back just before an AllocateDescriptors of the same
\* count, -1 when there was none
NoAlloc == [op |-> "none", index |-> 0, count |-> 0, grew |-> FALSE, srcAlive |-> TRUE,
            afterRelease |-> -1]

\* a caller asks for count descriptors
Alloc_AllocateDescriptors(count, outcome, uafIntact, oob) ==
    LET r == D3D12DescriptorAllocator_AllocateDescriptors(allocator, count, outcome,
                                                          uafIntact, oob)
    IN  /\ Len(live) < MaxLive
        /\ r.a.numDescriptors <= MaxCapacity
        /\ allocator' = r.a
        /\ live' = IF r.index = kInvalidDescriptorIndex
                   THEN live
                   ELSE InsertRange(live, [index |-> r.index, count |-> count])
        /\ lastAlloc' = [op |-> "allocate", index |-> r.index, count |-> count,
                         grew |-> r.grew, srcAlive |-> r.srcAlive,
                         afterRelease |-> IF lastAlloc.op = "release"
                                             /\ lastAlloc.count = count
                                          THEN lastAlloc.index ELSE -1]
        /\ UNCHANGED otherThanAlloc

\* a caller gives back the k-th range it holds
Alloc_ReleaseDescriptors(k) ==
    /\ k \in 1..Len(live)
    /\ allocator' = D3D12DescriptorAllocator_ReleaseDescriptors(allocator, live[k].index,
                                                                live[k].count)
    /\ live' = RemoveAt(live, k)
    /\ lastAlloc' = [NoAlloc EXCEPT !.op = "release", !.index = live[k].index,
                                    !.count = live[k].count]
    /\ UNCHANGED otherThanAlloc

\* a caller creates a view in a descriptor of the k-th range it holds
Alloc_CreateView(k, offset, v) ==
    /\ k \in 1..Len(live)
    /\ offset < live[k].count
    /\ HandlesValid(allocator)
    /\ live[k].index + offset < Len(allocator.descriptors)
    /\ allocator' = D3D12DescriptorAllocator_CreateView(allocator, live[k].index + offset, v)
    /\ lastAlloc' = NoAlloc
    /\ UNCHANGED <<live, otherThanAlloc>>

\* a caller publishes the k-th range it holds to the shader-visible heap
Alloc_CopyToShaderVisibleHeap(k) ==
    /\ k \in 1..Len(live)
    /\ allocator.shaderVisible
    /\ HandlesValid(allocator)
    /\ allocator' = D3D12DescriptorAllocator_CopyToShaderVisibleHeap(allocator, live[k].index,
                                                                     live[k].count)
    /\ lastAlloc' = NoAlloc
    /\ UNCHANGED <<live, otherThanAlloc>>

AllocInit ==
    /\ allocator \in {D3D12DescriptorAllocator_Init(sv, n) :
                          sv \in BOOLEAN, n \in InitCapacities}
    /\ live = <<>>
    /\ lastAlloc = NoAlloc

\* the allocator before Init, as it stays while only the frame pacer runs
AllocParked ==
    /\ allocator = D3D12DescriptorAllocator
    /\ live = <<>>
    /\ lastAlloc = NoAlloc

AllocNext ==
    \/ \E count \in 1..MaxCount, outcome \in CreateOutcomes(allocator),
          uafIntact \in BOOLEAN, oob \in BOOLEAN :
            Alloc_AllocateDescriptors(count, outcome, uafIntact, oob)
    \/ \E k \in 1..MaxLive : Alloc_ReleaseDescriptors(k)
    \/ \E k \in 1..MaxLive, offset \in 0..(MaxCount - 1), v \in Views :
            Alloc_CreateView(k, offset, v)
    \/ \E k \in 1..MaxLive : Alloc_CopyToShaderVisibleHeap(k)

(***************************************************************************)
(* Bind group layouts and bind groups of the Direct3D12 device.  A bind    *)
(* group owns one descriptor table in the CBV/SRV/UAV heap and one in the  *)
(* sampler heap; Update fills them from the entries it is given.           *)
(***************************************************************************)
\* largest number of entries of a bind group layout
MaxLayoutEntries == 2
\* largest number of entries passed to CreateBindGroup
MaxEntries == 2
\* largest binding number
MaxBinding == 2
\* largest count of a layout entry
MaxEntryCount == 2
\* largest number of bind groups created one after the other
MaxBindGroups == 1

\* capacity the two shader-visible heaps are created with (1000000 and 2048
\* in D3D12Device::Init), scaled down; no table of the model outgrows it
BindHeapCapacity == 8

\* the descriptor types layouts are made of, one or two per range type
DescriptorTypes == {"Sampler", "ConstantBuffer", "StorageBuffer", "ReadOnlyStorageBuffer"}

Buffers == {"buffer1", "buffer2"}
Samplers == {"sampler1", "sampler2"}

\* what the device writes into a descriptor
ConstantBufferView(buffer) == IF buffer = "buffer1" THEN "cbv_buffer1" ELSE "cbv_buffer2"
SamplerView(sampler) == IF sampler = "sampler1" THEN "sampler_sampler1" ELSE "sampler_sampler2"

\* the switch over entry.descriptorType in CreateBindGroupLayout
DescriptorRangeType(descriptorType) ==
    CASE descriptorType = "Sampler" -> "SAMPLER"
      [] descriptorType = "SampledTexture" -> "SRV"
      [] descriptorType = "StorageTexture" -> "UAV"
      [] descriptorType = "ReadOnlyStorageTexture" -> "SRV"
      [] descriptorType \in {"ConstantBuffer", "DynamicConstantBuffer"} -> "CBV"
      [] descriptorType = "StorageBuffer" -> "UAV"
      [] descriptorType = "ReadOnlyStorageBuffer" -> "SRV"
      [] OTHER -> "SRV"

\* member initialisers of D3D12BindGroupLayout and the locals of
\* CreateBindGroupLayout before its loop; currentBinding is ~0u, which the
\* code only uses as currentBinding + 1 = 0
D3D12BindGroupLayout ==
    [exists |-> FALSE,
     descriptorTableSizeCbvUavSrv |-> 0, descriptorTableSizeSamplers |-> 0,
     cbvUavSrvDescriptorRanges |-> <<>>, samplerDescriptorRanges |-> <<>>,
     currentType |-> "none", currentBinding |-> -1]

\* the last range of a vector gets count more descriptors
ExtendLast(ranges, count) ==
    [ranges EXCEPT ![Len(ranges)].NumDescriptors = @ + count]

\* one pass of the loop of CreateBindGroupLayout
CreateBindGroupLayout_Entry(layout, entry) ==
    LET descriptorRangeType == DescriptorRangeType(entry.descriptorType)
        range(offset) == [RangeType |-> descriptorRangeType,
                          NumDescriptors |-> entry.count,
                          BaseShaderRegister |-> entry.binding,
                          OffsetInDescriptorsFromTableStart |-> offset]
    IN  IF descriptorRangeType # layout.currentType
           \/ entry.binding # layout.currentBinding + 1
        THEN IF descriptorRangeType = "SAMPLER"
             THEN [layout EXCEPT
                      !.samplerDescriptorRanges =
                          Append(@, range(layout.descriptorTableSizeSamplers)),
                      !.descriptorTableSizeSamplers = @ + 1,
                      !.currentType = descriptorRangeType,
                      !.currentBinding = entry.binding]
             ELSE [layout EXCEPT
                      !.cbvUavSrvDescriptorRanges =
                          Append(@, range(layout.descriptorTableSizeCbvUavSrv)),
                      !.descriptorTableSizeCbvUavSrv = @ + 1,
                      !.currentType = descriptorRangeType,
                      !.currentBinding = entry.binding]
        ELSE IF descriptorRangeType = "SAMPLER"
             THEN [layout EXCEPT
                      !.samplerDescriptorRanges = ExtendLast(@, entry.count),
                      !.descriptorTableSizeSamplers = @ + entry.count,
                      !.currentBinding = entry.binding]
             ELSE [layout EXCEPT
                      !.cbvUavSrvDescriptorRanges = ExtendLast(@, entry.count),
                      !.descriptorTableSizeCbvUavSrv = @ + entry.count,
                      !.currentBinding = entry.binding]

RECURSIVE CreateBindGroupLayout_Loop(_, _, _)
CreateBindGroupLayout_Loop(layout, entries, i) ==
    IF i > Len(entries)
    THEN layout
    ELSE CreateBindGroupLayout_Loop(CreateBindGroupLayout_Entry(layout, entries[i]),
                                    entries, i + 1)

D3D12Device_CreateBindGroupLayout(entries) ==
    [CreateBindGroupLayout_Loop(D3D12BindGroupLayout, entries, 1) EXCEPT !.exists = TRUE]

\* member initialisers of D3D12BindGroup
D3D12BindGroup ==
    [exists |-> FALSE, descriptorTableCbvUavSrv |-> 0, descriptorTableSamplers |-> 0]

\* the search of Update for the entry of a CBV/SRV/UAV slot, from
\* entryIndex on; the branches that create shader resource and unordered
\* access views are compiled out
RECURSIVE Update_FindCbvUavSrv(_, _, _, _)
Update_FindCbvUavSrv(range, binding, entries, entryIndex) ==
    IF entryIndex >= Len(entries)
    THEN [found |-> FALSE, view |-> "none"]
    ELSE LET entry == entries[entryIndex + 1]
         IN  IF entry.binding # binding
             THEN Update_FindCbvUavSrv(range, binding, entries, entryIndex + 1)
             ELSE IF range.RangeType = "CBV"
             THEN IF entry.buffer # "null"
                  THEN [found |-> TRUE, view |-> ConstantBufferView(entry.buffer)]
                  ELSE [found |-> FALSE, view |-> "none"]
             ELSE Update_FindCbvUavSrv(range, binding, entries, entryIndex + 1)

\* the null descriptor written when no entry was found
Update_NullView(range) ==
    CASE range.RangeType = "SRV" -> "null_srv"
      [] range.RangeType = "UAV" -> "null_uav"
      [] range.RangeType = "CBV" -> "null_cbv"
      [] OTHER -> "none"

\* the two loops of Update over the ranges of the CBV/SRV/UAV table and the
\* descriptors of each range, from range r and descriptor index on
RECURSIVE Update_CbvUavSrv(_, _, _, _, _, _, _)
Update_CbvUavSrv(heap, descriptorTableBaseIndex, ranges, r, index, startIndex, entries) ==
    IF r > Len(ranges)
    THEN heap
    ELSE IF index >= ranges[r].NumDescriptors
    THEN Update_CbvUavSrv(heap, descriptorTableBaseIndex, ranges, r + 1, 0, startIndex, entries)
    ELSE LET range == ranges[r]
             binding == range.BaseShaderRegister + index
             descriptor == descriptorTableBaseIndex
                             + range.OffsetInDescriptorsFromTableStart + index
             m == Update_FindCbvUavSrv(range, binding, entries, startIndex)
             view == IF m.found THEN m.view ELSE Update_NullView(range)
             written == IF view = "none"
                        THEN heap
                        ELSE D3D12DescriptorAllocator_CreateView(heap, descriptor, view)
         IN  Update_CbvUavSrv(written, descriptorTableBaseIndex, ranges, r, index + 1,
                              IF m.found THEN startIndex + 1 ELSE startIndex, entries)

\* the search of Update for the entry of a sampler slot
RECURSIVE Update_FindSampler(_, _, _)
Update_FindSampler(binding, entries, entryIndex) ==
    IF entryIndex >= Len(entries)
    THEN [found |-> FALSE, view |-> "default_sampler"]
    ELSE LET entry == entries[entryIndex + 1]
         IN  IF entry.binding = binding /\ entry.sampler # "null"
             THEN [found |-> TRUE, view |-> SamplerView(entry.sampler)]
             ELSE Update_FindSampler(binding, entries, entryIndex + 1)

\* the two loops of Update over the sampler table; a found entry advances
\* startIndex inside the search and again at the end of the slot
RECURSIVE Update_Samplers(_, _, _, _, _, _, _)
Update_Samplers(heap, descriptorTableBaseIndex, ranges, r, index, startIndex, entries) ==
    IF r > Len(ranges)
    THEN heap
    ELSE IF index >= ranges[r].NumDescriptors
    THEN Update_Samplers(heap, descriptorTableBaseIndex, ranges, r + 1, 0, startIndex, entries)
    ELSE LET range == ranges[r]
             binding == range.BaseShaderRegister + index
             descriptor == descriptorTableBaseIndex
                             + range.OffsetInDescriptorsFromTableStart + index
             m == Update_FindSampler(binding, entries, startIndex)
         IN  Update_Samplers(D3D12DescriptorAllocator_CreateView(heap, descriptor, m.view),
                             descriptorTableBaseIndex, ranges, r, index + 1,
                             IF m.found THEN startIndex + 1 + 1 ELSE startIndex, entries)

\* D3D12BindGroup::Update on the bind group bg of layout; the heaps of the
\* model are large enough for AllocateDescriptors never to grow them
D3D12BindGroup_Update(bg, layout, srvHeap, smpHeap, entries) ==
    LET srv1 == IF bg.descriptorTableCbvUavSrv # 0
                THEN D3D12DescriptorAllocator_ReleaseDescriptors(
                         srvHeap, bg.descriptorTableCbvUavSrv,
                         layout.descriptorTableSizeCbvUavSrv)
                ELSE srvHeap
        smp1 == IF bg.descriptorTableSamplers # 0
                THEN D3D12DescriptorAllocator_ReleaseDescriptors(
                         smpHeap, bg.descriptorTableSamplers,
                         layout.descriptorTableSizeSamplers)
                ELSE smpHeap
        srvAlloc == D3D12DescriptorAllocator_AllocateDescriptors(
                        srv1, layout.descriptorTableSizeCbvUavSrv, "ok", TRUE, FALSE)
        srv2 == D3D12DescriptorAllocator_CopyToShaderVisibleHeap(
                    Update_CbvUavSrv(srvAlloc.a, srvAlloc.index,
                                     layout.cbvUavSrvDescriptorRanges, 1, 0, 0, entries),
                    srvAlloc.index, layout.descriptorTableSizeCbvUavSrv)
        smpAlloc == D3D12DescriptorAllocator_AllocateDescriptors(
                        smp1, layout.descriptorTableSizeSamplers, "ok", TRUE, FALSE)
        smp2 == D3D12DescriptorAllocator_CopyToShaderVisibleHeap(
                    Update_Samplers(smpAlloc.a, smpAlloc.index,
                                    layout.samplerDescriptorRanges, 1, 0, 0, entries),
                    smpAlloc.index, layout.descriptorTableSizeSamplers)
        hasSrv == layout.descriptorTableSizeCbvUavSrv > 0
        hasSmp == layout.descriptorTableSizeSamplers > 0
    IN  [bg |-> [bg EXCEPT !.descriptorTableCbvUavSrv = IF hasSrv THEN srvAlloc.index ELSE @,
                           !.descriptorTableSamplers = IF hasSmp THEN smpAlloc.index ELSE @],
         srvHeap |-> IF hasSrv THEN srv2 ELSE srv1,
         smpHeap |-> IF hasSmp THEN smp2 ELSE smp1]

\* D3D12BindGroup::~D3D12BindGroup: each table is released when its base
\* index is not 0
D3D12BindGroup_Destructor(bg, layout, srvHeap, smpHeap) ==
    [srvHeap |-> IF bg.descriptorTableCbvUavSrv # 0
                 THEN D3D12DescriptorAllocator_ReleaseDescriptors(
                          srvHeap, bg.descriptorTableCbvUavSrv,
                          layout.descriptorTableSizeCbvUavSrv)
                 ELSE srvHeap,
     smpHeap |-> IF bg.descriptorTableSamplers # 0
                 THEN D3D12DescriptorAllocator_ReleaseDescriptors(
                          smpHeap, bg.descriptorTableSamplers,
                          layout.descriptorTableSizeSamplers)
                 ELSE smpHeap]

\* the registers a layout entry names
EntryBindings(e) == e.binding..(e.binding + e.count - 1)

\* the layout descriptions an application passes: every entry inside the
\* binding numbers of the model, no binding named twice
LayoutEntries ==
    {e \in [binding : 0..MaxBinding, count : 1..MaxEntryCount, descriptorType : DescriptorTypes] :
        e.binding + e.count - 1 <= MaxBinding}

LayoutDescs ==
    {d \in UNION {[1..n -> LayoutEntries] : n \in 1..MaxLayoutEntries} :
        \A i, j \in 1..Len(d) : i # j => EntryBindings(d[i]) \cap EntryBindings(d[j]) = {}}

\* the entries an application passes to a bind group: a buffer, a sampler or
\* neither at a binding, no binding named twice
BindGroupEntries ==
    {e \in [binding : 0..MaxBinding, buffer : Buffers \cup {"null"},
            sampler : Samplers \cup {"null"}] :
        e.buffer = "null" \/ e.sampler = "null"}

BindGroupEntryLists ==
    {d \in UNION {[1..n -> BindGroupEntries] : n \in 0..MaxEntries} :
        \A i, j \in 1..Len(d) : i # j => d[i].binding # d[j].binding}

\* vgpuCreateBindGroupLayout
Bind_CreateBindGroupLayout(desc) ==
    /\ ~bindGroupLayout.exists
    /\ bindGroupLayout' = D3D12Device_CreateBindGroupLayout(desc)
    /\ UNCHANGED <<bindGroup, shaderResourceViewHeap, samplerHeap, bindEntries,
                   bindGroupsCreated>>
    /\ UNCHANGED otherThanBind

\* vgpuCreateBindGroup: a new bind group of the layout, filled by Update
Bind_CreateBindGroup(entries) ==
    LET u == D3D12BindGroup_Update([D3D12BindGroup EXCEPT !.exists = TRUE], bindGroupLayout,
                                   shaderResourceViewHeap, samplerHeap, entries)
    IN  /\ bindGroupLayout.exists
        /\ ~bindGroup.exists
        /\ bindGroupsCreated < MaxBindGroups
        /\ bindGroupsCreated' = bindGroupsCreated + 1
        /\ bindGroup' = u.bg
        /\ shaderResourceViewHeap' = u.srvHeap
        /\ samplerHeap' = u.smpHeap
        /\ bindEntries' = entries
        /\ UNCHANGED bindGroupLayout
        /\ UNCHANGED otherThanBind

\* vgpuBindGroupRelease of the last reference: the bind group is deleted
Bind_DestroyBindGroup ==
    LET d == D3D12BindGroup_Destructor(bindGroup, bindGroupLayout,
                                       shaderResourceViewHeap, samplerHeap)
    IN  /\ bindGroup.exists
        /\ bindGroup' = D3D12BindGroup
        /\ shaderResourceViewHeap' = d.srvHeap
        /\ samplerHeap' = d.smpHeap
        /\ bindEntries' = <<>>
        /\ UNCHANGED <<bindGroupLayout, bindGroupsCreated>>
        /\ UNCHANGED otherThanBind

BindInit ==
    /\ bindGroupLayout = D3D12BindGroupLayout
    /\ bindGroup = D3D12BindGroup
    /\ shaderResourceViewHeap = D3D12DescriptorAllocator_Init(TRUE, BindHeapCapacity)
    /\ samplerHeap = D3D12DescriptorAllocator_Init(TRUE, BindHeapCapacity)
    /\ bindEntries = <<>>
    /\ bindGroupsCreated = 0

\* no layout, no bind group and the heaps before Init, as they stay while
\* another part of the program is followed
BindParked ==
    /\ bindGroupLayout = D3D12BindGroupLayout
    /\ bindGroup = D3D12BindGroup
    /\ shaderResourceViewHeap = D3D12DescriptorAllocator
    /\ samplerHeap = D3D12DescriptorAllocator
    /\ bindEntries = <<>>
    /\ bindGroupsCreated = 0

BindNext ==
    \/ \E desc \in LayoutDescs : Bind_CreateBindGroupLayout(desc)
    \/ \E entries \in BindGroupEntryLists : Bind_CreateBindGroup(entries)
    \/ Bind_DestroyBindGroup

(***************************************************************************)
(* The upload ring: D3D12_UploadContext, D3D12Device::UploadAllocate and   *)
(* D3D12Device::UploadSubmit, with the queues of the GPU.                  *)
(***************************************************************************)
\* bounds: contexts created, uses of one context, Waits pending in one queue
MaxContexts == 2
MaxUses == 1
MaxQueueLen == 1

\* the sizes callers ask for
UploadSizes == {1, 3}

ContextIds == 1..MaxContexts

\* a default-constructed context; id stands for its command list, its fence
\* and its staging buffer, 0 for nullptr
D3D12_UploadContext == [id |-> 0, fenceValueSignaled |-> 0, uploadBufferSize |-> 0]

\* fence->GetCompletedValue() >= fenceValueSignaled
IsCompleted(context, fence) == fence[context.id] >= context.fenceValueSignaled

\* a search that hands out a context whatever its fence says
UploadAllocate_Find_NoFenceCheck(list, size, fence) ==
    LET fits == {i \in 1..Len(list) :
                    /\ list[i].id # 0
                    /\ list[i].uploadBufferSize >= size}
    IN  IF fits = {} THEN 0 ELSE Min(fits)

\* a search that wants a staging buffer larger than the request
UploadAllocate_Find_LargerOnly(list, size, fence) ==
    LET fits == {i \in 1..Len(list) :
                    /\ list[i].id # 0
                    /\ list[i].uploadBufferSize > size
                    /\ IsCompleted(list[i], fence)}
    IN  IF fits = {} THEN 0 ELSE Min(fits)

\* the loop of UploadAllocate: the first context of the free list with a
\* staging buffer that fits and a completed fence, 0 when there is none
UploadAllocate_Find(list, size, fence) ==
    LET fits == {i \in 1..Len(list) :
                    /\ list[i].id # 0
                    /\ list[i].uploadBufferSize >= size
                    /\ IsCompleted(list[i], fence)}
    IN  IF fits = {} THEN 0 ELSE Min(fits)

\* std::swap(uploadFreeList[i], uploadFreeList.back()); pop_back()
SwapPop(list, i) ==
    [j \in 1..(Len(list) - 1) |-> IF j = i THEN list[Len(list)] ELSE list[j]]

\* the callers' contexts, kept by id
InsertContext(held, context) ==
    LET n == Cardinality({j \in 1..Len(held) : held[j].id <= context.id})
    IN  [j \in 1..(Len(held) + 1) |->
            IF j <= n THEN held[j] ELSE IF j = n + 1 THEN context ELSE held[j - 1]]

\* D3D12Device::UploadAllocate(size)
D3D12Device_UploadAllocate(size) ==
    LET i == UploadAllocate_Find(uploadFreeList, size, uploadFence)
        context == IF i # 0
                   THEN uploadFreeList[i]
                   ELSE [id |-> uploadCreated + 1,
                         fenceValueSignaled |-> 0,
                         uploadBufferSize |-> vgpuNextPowerOfTwo(size)]
    IN  /\ ~uploadShutDown
        /\ Len(uploadHeld) < MaxContexts
        /\ i = 0 => uploadCreated < MaxContexts
        /\ uploadFreeList' = IF i # 0 THEN SwapPop(uploadFreeList, i) ELSE uploadFreeList
        /\ uploadCreated' = IF i # 0 THEN uploadCreated ELSE uploadCreated + 1
           \* fence->Signal(0) on reuse, CreateFence(0) otherwise
        /\ uploadFence' = [uploadFence EXCEPT ![context.id] = 0]
        /\ uploadHeld' = InsertContext(uploadHeld, context)
        /\ UNCHANGED <<uploadSubmitting, uploadCommandQueue, gpuQueues, uploadCopied,
                       uploadReleased, uploadShutDown>>
        /\ UNCHANGED otherThanUpload

\* D3D12Device::UploadSubmit(context), up to uploadLocker.unlock(): the
\* context goes back to the free list with the value its fence will get
D3D12Device_UploadSubmit_Lock(k) ==
    /\ ~uploadShutDown
    /\ k \in 1..Len(uploadHeld)
    /\ uploadHeld[k].fenceValueSignaled < MaxUses
    /\ LET context == [uploadHeld[k] EXCEPT
                           !.fenceValueSignaled = uploadHeld[k].fenceValueSignaled + 1]
       IN  /\ uploadFreeList' = Append(uploadFreeList, context)
           /\ uploadSubmitting' = uploadSubmitting \cup {context}
    /\ uploadHeld' = [j \in 1..(Len(uploadHeld) - 1) |->
                         IF j < k THEN uploadHeld[j] ELSE uploadHeld[j + 1]]
    /\ UNCHANGED <<uploadCreated, uploadFence, uploadCommandQueue, gpuQueues, uploadCopied,
                   uploadReleased, uploadShutDown>>
    /\ UNCHANGED otherThanUpload

\* an UploadSubmit that does not make the graphics queue wait
D3D12Device_UploadSubmit_Execute_NoGraphicsWait(context) ==
    /\ ~uploadShutDown
    /\ context \in uploadSubmitting
    /\ \A q \in Queues : Len(gpuQueues[q]) < MaxQueueLen
    /\ uploadSubmitting' = uploadSubmitting \ {context}
    /\ uploadCommandQueue' = Append(uploadCommandQueue,
                                    [id |-> context.id,
                                     value |-> context.fenceValueSignaled])
    /\ gpuQueues' = [q \in Queues |->
                        IF q = "Graphics"
                        THEN gpuQueues[q]
                        ELSE Append(gpuQueues[q],
                                    [id |-> context.id,
                                     value |-> context.fenceValueSignaled])]
    /\ UNCHANGED <<uploadFreeList, uploadHeld, uploadCreated, uploadFence, uploadCopied,
                   uploadReleased, uploadShutDown>>
    /\ UNCHANGED otherThanUpload

\* D3D12Device::UploadSubmit(context), the rest: the copy and the Signal go
\* to the upload queue, a Wait for that value goes to each of the three
\* queues, and the call returns
D3D12Device_UploadSubmit_Execute(context) ==
    /\ ~uploadShutDown
    /\ context \in uploadSubmitting
    /\ \A q \in Queues : Len(gpuQueues[q]) < MaxQueueLen
    /\ uploadSubmitting' = uploadSubmitting \ {context}
    /\ uploadCommandQueue' = Append(uploadCommandQueue,
                                    [id |-> context.id,
                                     value |-> context.fenceValueSignaled])
    /\ gpuQueues' = [q \in Queues |->
                        Append(gpuQueues[q],
                               [id |-> context.id,
                                value |-> context.fenceValueSignaled])]
    /\ UNCHANGED <<uploadFreeList, uploadHeld, uploadCreated, uploadFence, uploadCopied,
                   uploadReleased, uploadShutDown>>
    /\ UNCHANGED otherThanUpload

\* an upload queue that runs the copy and was given no Signal for the fence
Gpu_UploadQueueStep_NoSignal ==
    /\ uploadCommandQueue # <<>>
    /\ LET copy == Head(uploadCommandQueue)
       IN  uploadCopied' = uploadCopied \cup {<<copy.id, copy.value>>}
    /\ uploadCommandQueue' = Tail(uploadCommandQueue)
    /\ UNCHANGED <<uploadFreeList, uploadHeld, uploadSubmitting, uploadCreated, uploadFence,
                   gpuQueues, uploadReleased, uploadShutDown>>
    /\ UNCHANGED otherThanUpload

\* the upload queue runs its next copy and signals the context's fence
Gpu_UploadQueueStep ==
    /\ uploadCommandQueue # <<>>
    /\ LET copy == Head(uploadCommandQueue)
       IN  /\ uploadFence' = [uploadFence EXCEPT ![copy.id] = copy.value]
           /\ uploadCopied' = uploadCopied \cup {<<copy.id, copy.value>>}
    /\ uploadCommandQueue' = Tail(uploadCommandQueue)
    /\ UNCHANGED <<uploadFreeList, uploadHeld, uploadSubmitting, uploadCreated, gpuQueues,
                   uploadReleased, uploadShutDown>>
    /\ UNCHANGED otherThanUpload

\* one of the three queues gets past its next Wait, which it does once the
\* fence has reached the value; what was submitted to the queue after the
\* Wait runs from then on
Gpu_QueueStep(q) ==
    /\ gpuQueues[q] # <<>>
    /\ LET wait == Head(gpuQueues[q])
       IN  uploadFence[wait.id] >= wait.value
    /\ gpuQueues' = [gpuQueues EXCEPT ![q] = Tail(@)]
    /\ UNCHANGED <<uploadFreeList, uploadHeld, uploadSubmitting, uploadCreated, uploadFence,
                   uploadCommandQueue, uploadCopied, uploadReleased, uploadShutDown>>
    /\ UNCHANGED otherThanUpload

\* ~D3D12Device, after WaitIdle: every context of the free list is released
D3D12_Destructor_Upload ==
    /\ ~uploadShutDown
    /\ uploadSubmitting = {}
    /\ \A q \in Queues : gpuQueues[q] = <<>>
    /\ uploadReleased' = uploadReleased \cup
                             {uploadFreeList[i].id : i \in 1..Len(uploadFreeList)}
    /\ uploadFreeList' = <<>>
    /\ uploadShutDown' = TRUE
    /\ UNCHANGED <<uploadHeld, uploadSubmitting, uploadCreated, uploadFence,
                   uploadCommandQueue, gpuQueues, uploadCopied>>
    /\ UNCHANGED otherThanUpload

\* the device after Init: no context yet, every queue empty
UploadInit ==
    /\ uploadFreeList = <<>>
    /\ uploadHeld = <<>>
    /\ uploadSubmitting = {}
    /\ uploadCreated = 0
    /\ uploadFence = [c \in ContextIds |-> 0]
    /\ uploadCommandQueue = <<>>
    /\ gpuQueues = [q \in Queues |-> <<>>]
    /\ uploadCopied = {}
    /\ uploadReleased = {}
    /\ uploadShutDown = FALSE

UploadNext ==
    \/ \E size \in UploadSizes : D3D12Device_UploadAllocate(size)
    \/ \E k \in 1..MaxContexts : D3D12Device_UploadSubmit_Lock(k)
    \/ \E context \in uploadSubmitting : D3D12Device_UploadSubmit_Execute(context)
    \/ Gpu_UploadQueueStep
    \/ \E q \in Queues : Gpu_QueueStep(q)
    \/ D3D12_Destructor_Upload

(***************************************************************************)
(* The upload ring as its callers use it: CreateBuffer and CreateTexture   *)
(* call UploadAllocate, record the copy and call UploadSubmit, so every    *)
(* context that is handed out is submitted, and a context is handed out    *)
(* again as often as the bound on its uses allows.                         *)
(***************************************************************************)
\* bounds: contexts created, uses of one context
MaxFairContexts == 1
MaxFairUses == 2

\* D3D12Device::UploadAllocate(size) for a caller that will submit the context
Fair_UploadAllocate(size) ==
    /\ LET i == UploadAllocate_Find(uploadFreeList, size, uploadFence)
       IN  /\ i = 0 => uploadCreated < MaxFairContexts
           /\ i # 0 => uploadFreeList[i].fenceValueSignaled < MaxFairUses
    /\ D3D12Device_UploadAllocate(size)

\* D3D12Device::UploadSubmit(context), the whole call, on queues that can
\* hold the Waits of every submit: fenceValueSignaled++, the context goes
\* back to the free list, the copy and the Signal go to the upload queue,
\* a Wait for the value to each of the three queues
Fair_UploadSubmit(k) ==
    /\ ~uploadShutDown
    /\ k \in 1..Len(uploadHeld)
    /\ LET context == [uploadHeld[k] EXCEPT
                           !.fenceValueSignaled = uploadHeld[k].fenceValueSignaled + 1]
           entry == [id |-> context.id, value |-> context.fenceValueSignaled]
       IN  /\ uploadFreeList' = Append(uploadFreeList, context)
           /\ uploadCommandQueue' = Append(uploadCommandQueue, entry)
           /\ gpuQueues' = [q \in Queues |-> Append(gpuQueues[q], entry)]
    /\ uploadHeld' = RemoveAt(uploadHeld, k)
    /\ UNCHANGED <<uploadSubmitting, uploadCreated, uploadFence, uploadCopied,
                   uploadReleased, uploadShutDown>>
    /\ UNCHANGED otherThanUpload

UploadFairNext ==
    \/ \E size \in UploadSizes : Fair_UploadAllocate(size)
    \/ \E k \in 1..MaxContexts : Fair_UploadSubmit(k)
    \/ Gpu_UploadQueueStep
    \/ \E q \in Queues : Gpu_QueueStep(q)

(***************************************************************************)
(* The swapchain of one window: AcquireSwapchainTexture with its resize,   *)
(* the present of Submit and the ticket Submit returns.                    *)
(***************************************************************************)
\* bounds: Submit calls, references a caller adds to one backbuffer wrapper
MaxSubmits == 2
MaxAddRefs == 1

\* the client sizes of the window; <<0, 0>> is the minimized window
WindowSizes == {<<800, 600>>, <<1024, 768>>, <<0, 0>>}

\* D3D12SwapChain::backBufferCount
backBufferCount == 1

ResizeOutcomes == {"S_OK", "DXGI_ERROR_DEVICE_REMOVED", "DXGI_ERROR_DEVICE_RESET", "E_FAIL"}
PresentOutcomes == {"S_OK", "DXGI_ERROR_DEVICE_REMOVED", "DXGI_ERROR_DEVICE_RESET", "E_FAIL"}
VkAcquireResults == {"VK_SUCCESS", "VK_SUBOPTIMAL_KHR", "VK_ERROR_OUT_OF_DATE_KHR"}
DeviceLost == {"DXGI_ERROR_DEVICE_REMOVED", "DXGI_ERROR_DEVICE_RESET"}

\* a texture wrapper that does not exist yet; wrapper k owns the native
\* handle k
NoTexture == [state |-> "none", width |-> 0, height |-> 0, refCount |-> 0, freedBy |-> "none"]

NoAcquire == [op |-> "none", differed |-> FALSE, native |-> "none",
              client |-> <<0, 0>>, returned |-> 0]

NoTicket == [value |-> -1, ok |-> FALSE, maxBefore |-> -1, maxOkBefore |-> -1]

Max(a, b) == IF a >= b THEN a ELSE b

\* the record of the tickets once the call that returned the last one is over
Fold(t) ==
    [value |-> -1, ok |-> FALSE,
     maxBefore |-> Max(t.maxBefore, t.value),
     maxOkBefore |-> IF t.ok THEN Max(t.maxOkBefore, t.value) ELSE t.maxOkBefore]

\* the wrappers that can still be created, lowest first
FreshTextures == {k \in Handles : textures[k].state = "none"}

\* D3D12Device::UpdateSwapChain: the recorded size becomes the size of the
\* native swapchain and one wrapper per buffer is created, with one reference
D3D12Device_UpdateSwapChain(sc, tx) ==
    LET new == [i \in 1..backBufferCount |->
                   Min({k \in Handles : tx[k].state = "none"}) + (i - 1)]
    IN  [sc |-> [sc EXCEPT !.width = sc.descWidth, !.height = sc.descHeight,
                           !.backbufferTextures = new],
         tx |-> [k \in Handles |->
                    IF \E i \in 1..backBufferCount : new[i] = k
                    THEN [state |-> "alive", width |-> sc.descWidth,
                          height |-> sc.descHeight, refCount |-> 1, freedBy |-> "none"]
                    ELSE tx[k]]]

\* the window gets another client size
Window_Resize(size) ==
    /\ size # window
    /\ window' = size
    /\ lastAcquire' = NoAcquire
    /\ tickets' = Fold(tickets)
    /\ UNCHANGED <<swapChain, textures, acquired, submitCalls>>
    /\ UNCHANGED <<deviceVars, otherThanPresent>>

\* an AcquireSwapchainTexture that rebuilds the backbuffers whatever
\* ResizeBuffers returned
AcquireSwapchainTexture_Resized_Recover(sc, tx, width, height, hr) ==
    D3D12Device_UpdateSwapChain([sc EXCEPT !.descWidth = width, !.descHeight = height], tx)

\* the swapchain and the wrappers after ResizeBuffers(width, height)
\* returned hr: UpdateSwapChain runs when it succeeded and not otherwise
AcquireSwapchainTexture_Resized(sc, tx, width, height, hr) ==
    IF hr = "S_OK"
    THEN D3D12Device_UpdateSwapChain([sc EXCEPT !.descWidth = width, !.descHeight = height], tx)
    ELSE [sc |-> sc, tx |-> tx]

\* D3D12CommandBuffer::AcquireSwapchainTexture: hr is what ResizeBuffers
\* returns if it is called, garbage what backbufferTextures[index] yields
\* when the list is empty
D3D12CommandBuffer_AcquireSwapchainTexture(hr, garbage) ==
    LET width == window[1]
        height == window[2]
        differs == width # swapChain.descWidth \/ height # swapChain.descHeight
    IN  /\ backend = "d3d12"
        /\ pc = "idle"
        /\ swapChain.alive
        /\ IF width = 0 \/ height = 0
           THEN \* the window is minimized
                /\ hr = "none" /\ garbage = 0
                /\ lastAcquire' = [op |-> "acquire", differed |-> differs, native |-> "none",
                                   client |-> window, returned |-> 0]
                /\ UNCHANGED <<swapChain, textures, acquired, deferredReleases,
                               deferredAllocations, res>>
           ELSE IF differs
           THEN \* WaitIdle, delete the wrappers, ResizeBuffers, UpdateSwapChain
                /\ hr \in ResizeOutcomes /\ garbage = 0
                /\ GpuIdle
                /\ hr = "S_OK" => Cardinality(FreshTextures) >= backBufferCount
                /\ LET p == D3D12_ProcessDeletionQueue(deferredAllocations, deferredReleases,
                                                       res, frameCount)
                       old == swapChain.backbufferTextures
                       hs == {old[i] : i \in 1..Len(old)}
                       freed == [k \in Handles |->
                                    IF k \in hs
                                    THEN [textures[k] EXCEPT !.state = "freed",
                                                             !.freedBy = "delete"]
                                    ELSE textures[k]]
                       r == AcquireSwapchainTexture_Resized(
                                [swapChain EXCEPT !.backbufferTextures = <<>>],
                                freed, width, height, hr)
                   IN  /\ deferredAllocations' = p.qa
                       /\ deferredReleases' = p.qr \o
                              [i \in 1..Len(old) |-> [h |-> old[i], frame |-> frameCount]]
                       /\ res' = [k \in Handles |->
                                     IF k \in hs
                                     THEN [p.r[k] EXCEPT !.st = "queued", !.f = frameCount]
                                     ELSE p.r[k]]
                       /\ swapChain' = r.sc
                       /\ textures' = r.tx
                       /\ LET returned == IF r.sc.backbufferTextures = <<>>
                                          THEN 0
                                          ELSE r.sc.backbufferTextures[1]
                          IN  /\ lastAcquire' = [op |-> "acquire", differed |-> TRUE,
                                                 native |-> hr, client |-> window,
                                                 returned |-> IF hr = "S_OK" THEN returned
                                                              ELSE 0]
                              /\ acquired' = (acquired \/ (hr = "S_OK"))
           ELSE \* the sizes agree
                /\ hr = "none"
                /\ IF swapChain.backbufferTextures = <<>>
                   THEN garbage \in 0..NumHandles
                   ELSE garbage = 0
                /\ lastAcquire' = [op |-> "acquire", differed |-> FALSE, native |-> "none",
                                   client |-> window,
                                   returned |-> IF swapChain.backbufferTextures = <<>>
                                                THEN garbage
                                                ELSE swapChain.backbufferTextures[1]]
                /\ acquired' = TRUE
                /\ UNCHANGED <<swapChain, textures, deferredReleases, deferredAllocations,
                               res>>
        /\ tickets' = Fold(tickets)
        /\ lastOp' = "other"
        /\ UNCHANGED <<window, submitCalls>>
        /\ UNCHANGED <<backend, pc, frameCount, frameIndex, submitted, gpuDone, shuttingDown,
                       frameFences, destroyed, frames>>
        /\ UNCHANGED otherThanPresent

\* vulkan_acquireNextTexture: whatever vkAcquireNextImageKHR returns, the
\* swapchain is pushed and the wrapper at imageIndex is returned
vulkan_acquireNextTexture(result) ==
    /\ backend = "vulkan"
    /\ swapChain.alive
    /\ window # <<0, 0>>
    /\ lastAcquire' = [op |-> "acquire",
                       differed |-> window # <<swapChain.width, swapChain.height>>,
                       native |-> result, client |-> window,
                       returned |-> swapChain.backbufferTextures[1]]
    /\ acquired' = TRUE
    /\ tickets' = Fold(tickets)
    /\ UNCHANGED <<window, swapChain, textures, submitCalls>>
    /\ UNCHANGED <<deviceVars, otherThanPresent>>

\* vgpuTextureAddRef on a backbuffer wrapper the caller got from the swapchain
vgpuTextureAddRef(t) ==
    /\ textures[t].state = "alive"
    /\ textures[t].refCount < 1 + MaxAddRefs
    /\ textures' = [textures EXCEPT ![t].refCount = @ + 1]
    /\ lastAcquire' = NoAcquire
    /\ tickets' = Fold(tickets)
    /\ UNCHANGED <<window, swapChain, acquired, submitCalls>>
    /\ UNCHANGED <<deviceVars, otherThanPresent>>

\* D3D12Device::Submit up to its first return or to the wait for the frame
\* fences: close is what commandList->Close() returns, present what Present
\* returns for the swapchain that was acquired.  The transition of the
\* backbuffer to PRESENT belongs to the barrier batch and is followed there.
\* What is handed to a device that Present reports removed or reset is
\* never completed, so that call leaves the queues as they were.
D3D12Device_Submit(close, present) ==
    /\ backend = "d3d12"
    /\ pc = "idle"
    /\ submitCalls < MaxSubmits
    /\ submitCalls' = submitCalls + 1
    /\ acquired' = FALSE
    /\ lastAcquire' = NoAcquire
    /\ lastOp' = "other"
    /\ IF close # "S_OK"
       THEN /\ present = "none"
            /\ tickets' = [Fold(tickets) EXCEPT !.value = 0]
            /\ UNCHANGED <<pc, frameCount, frameIndex, submitted>>
       ELSE /\ present = (IF acquired THEN present ELSE "none")
            /\ acquired => present \in PresentOutcomes
            /\ IF present \in DeviceLost
               THEN /\ tickets' = [Fold(tickets) EXCEPT !.value = 0]
                    /\ UNCHANGED <<pc, frameCount, frameIndex, submitted>>
               ELSE /\ tickets' = Fold(tickets)
                    /\ submitted' = [q \in Queues |-> submitted[q] + 1]
                    /\ frameCount' = frameCount + 1
                    /\ frameIndex' = (frameCount + 1) % MAX_INFLIGHT_FRAMES
                    /\ pc' = "submit_wait"
    /\ UNCHANGED <<backend, gpuDone, shuttingDown, deferredReleases, deferredAllocations,
                   frameFences, destroyed, frames, res>>
    /\ UNCHANGED <<window, swapChain, textures>>
    /\ UNCHANGED otherThanPresent

\* a Submit that returns the frame slot
D3D12Device_Submit_Ticket_FrameIndex == frameIndex

\* return frameCount - 1
D3D12Device_Submit_Ticket == frameCount - 1

\* the rest of D3D12Device::Submit: the wait for the frame fences is over,
\* ProcessDeletionQueue runs and the ticket is returned
D3D12Device_Submit_Return ==
    /\ backend = "d3d12"
    /\ pc = "submit_wait"
    /\ submitCalls > 0
    /\ D3D12_FrameFencesReached
    /\ LET p == D3D12_ProcessDeletionQueue(deferredAllocations, deferredReleases, res, frameCount)
       IN /\ deferredAllocations' = p.qa
          /\ deferredReleases' = p.qr
          /\ res' = p.r
    /\ pc' = "idle"
    /\ lastOp' = "pdq"
    /\ tickets' = [tickets EXCEPT !.value = D3D12Device_Submit_Ticket, !.ok = TRUE]
    /\ UNCHANGED <<backend, frameCount, frameIndex, submitted, gpuDone, shuttingDown,
                   frameFences, destroyed, frames>>
    /\ UNCHANGED <<window, swapChain, textures, acquired, submitCalls, lastAcquire>>
    /\ UNCHANGED otherThanPresent

\* a queue of the GPU finishes its oldest submission
Present_GpuComplete(q) ==
    /\ backend = "d3d12"
    /\ gpuDone[q] < submitted[q]
    /\ gpuDone' = [gpuDone EXCEPT ![q] = @ + 1]
    /\ frameFences' = [frameFences EXCEPT ![q][gpuDone[q] % MAX_INFLIGHT_FRAMES] = 1]
    /\ UNCHANGED <<backend, pc, frameCount, frameIndex, submitted, shuttingDown,
                   deferredReleases, deferredAllocations, destroyed, frames, res, lastOp>>
    /\ UNCHANGED <<window, swapChain, textures, acquired, submitCalls, lastAcquire, tickets>>
    /\ UNCHANGED otherThanPresent

\* D3D12SwapChain::~D3D12SwapChain: Release() on every wrapper, which
\* deletes those whose count reaches zero
D3D12SwapChain_Destructor ==
    /\ backend = "d3d12"
    /\ pc = "idle"
    /\ swapChain.alive
    /\ LET old == swapChain.backbufferTextures
           hs == {old[i] : i \in 1..Len(old)}
           gone == {k \in hs : textures[k].refCount = 1}
       IN  /\ textures' = [k \in Handles |->
                              IF k \in hs
                              THEN [textures[k] EXCEPT
                                       !.refCount = @ - 1,
                                       !.state = IF k \in gone THEN "freed" ELSE @,
                                       !.freedBy = IF k \in gone THEN "release" ELSE @]
                              ELSE textures[k]]
           /\ deferredReleases' = deferredReleases \o
                  [i \in 1..Cardinality(gone) |->
                      [h |-> CHOOSE k \in gone :
                                 Cardinality({g \in gone : g < k}) = i - 1,
                       frame |-> frameCount]]
           /\ res' = [k \in Handles |->
                         IF k \in gone
                         THEN [res[k] EXCEPT !.st = "queued", !.f = frameCount]
                         ELSE res[k]]
    /\ swapChain' = [swapChain EXCEPT !.backbufferTextures = <<>>, !.alive = FALSE]
    /\ acquired' = FALSE
    /\ lastAcquire' = NoAcquire
    /\ tickets' = Fold(tickets)
    /\ lastOp' = "other"
    /\ UNCHANGED <<window, submitCalls>>
    /\ UNCHANGED <<backend, pc, frameCount, frameIndex, submitted, gpuDone, shuttingDown,
                   deferredAllocations, frameFences, destroyed, frames>>
    /\ UNCHANGED otherThanPresent

\* a swapchain of 800x600 right after CreateSwapChain, in its window
PresentInit ==
    /\ window = <<800, 600>>
    /\ LET r == D3D12Device_UpdateSwapChain(
                    [width |-> 0, height |-> 0, backbufferTextures |-> <<>>,
                     descWidth |-> 800, descHeight |-> 600, alive |-> TRUE],
                    [k \in Handles |-> NoTexture])
       IN  /\ swapChain = r.sc
           /\ textures = r.tx
    /\ acquired = FALSE
    /\ submitCalls = 0
    /\ lastAcquire = NoAcquire
    /\ tickets = NoTicket

\* no swapchain, as it is while another part of the program is followed
PresentParked ==
    /\ window = <<0, 0>>
    /\ swapChain = [width |-> 0, height |-> 0, backbufferTextures |-> <<>>,
                    descWidth |-> 0, descHeight |-> 0, alive |-> FALSE]
    /\ textures = [k \in Handles |-> NoTexture]
    /\ acquired = FALSE
    /\ submitCalls = 0
    /\ lastAcquire = NoAcquire
    /\ tickets = NoTicket

PresentNext ==
    \/ \E size \in WindowSizes : Window_Resize(size)
    \/ \E hr \in ResizeOutcomes \cup {"none"}, garbage \in 0..NumHandles :
            D3D12CommandBuffer_AcquireSwapchainTexture(hr, garbage)
    \/ \E result \in VkAcquireResults : vulkan_acquireNextTexture(result)
    \/ \E t \in Handles : vgpuTextureAddRef(t)
    \/ \E close \in {"S_OK", "E_FAIL"}, present \in PresentOutcomes \cup {"none"} :
            D3D12Device_Submit(close, present)
    \/ D3D12Device_Submit_Return
    \/ \E q \in Queues : Present_GpuComplete(q)
    \/ D3D12SwapChain_Destructor

(***************************************************************************)
(* The barrier batch of one D3D12CommandBuffer.                            *)
(***************************************************************************)
\* bound: the resources whose state the command buffer changes
NumResources == 2

BarrierResources == 1..NumResources

\* the length of D3D12CommandBuffer::resourceBarriers
BarrierCapacity == 16

\* the D3D12_RESOURCE_STATES the callers ask for
ResourceStates == {"PRESENT", "RENDER_TARGET", "UNORDERED_ACCESS"}

\* D3D12CommandBuffer::FlushResourceBarriers on a batch of n barriers: the
\* count it leaves and the size of the batch it hands to ResourceBarrier
FlushResourceBarriers(n) ==
    IF n > 0 THEN [count |-> 0, flushed |-> n] ELSE [count |-> n, flushed |-> 0]

\* D3D12CommandBuffer::InsertUAVBarrier on a batch of n barriers
InsertUAVBarrier(n, flushImmediate) ==
    IF flushImmediate THEN FlushResourceBarriers(n + 1)
    ELSE [count |-> n + 1, flushed |-> 0]

\* the test at the end of TransitionResource without the test of the capacity
TransitionResource_MustFlush_ImmediateOnly(n, flushImmediate) == flushImmediate

\* if (flushImmediate || numBarriersToFlush == 16)
TransitionResource_MustFlush(n, flushImmediate) == flushImmediate \/ n = BarrierCapacity

\* the callers of TransitionResource with BeginRenderPass leaving its barrier
\* in the batch
TransitionResource_Caller_Deferred(flushImmediate) ==
    IF flushImmediate THEN commandBufferState = "recording"
    ELSE commandBufferState \in {"recording", "submit"}

\* the callers of TransitionResource: AcquireSwapchainTexture and
\* BeginRenderPass, while the command buffer records, pass flushImmediate =
\* true; the loop over the acquired swapchains in Submit passes nothing
TransitionResource_Caller(flushImmediate) ==
    IF flushImmediate THEN commandBufferState = "recording"
    ELSE commandBufferState = "submit"

\* D3D12CommandBuffer::TransitionResource; the VGPU_ASSERT stops a call that
\* would write past the end of resourceBarriers
D3D12CommandBuffer_TransitionResource(resource, newState, flushImmediate) ==
    LET oldState == resourceState[resource]
        adds == oldState # newState \/ newState = "UNORDERED_ACCESS"
        b == IF oldState # newState
             THEN [count |-> numBarriersToFlush + 1, flushed |-> 0]
             ELSE IF newState = "UNORDERED_ACCESS"
             THEN InsertUAVBarrier(numBarriersToFlush, flushImmediate)
             ELSE [count |-> numBarriersToFlush, flushed |-> 0]
        e == IF TransitionResource_MustFlush(b.count, flushImmediate)
             THEN FlushResourceBarriers(b.count)
             ELSE b
    IN  /\ TransitionResource_Caller(flushImmediate)
        /\ adds => numBarriersToFlush < BarrierCapacity
        /\ resourceState' = [resourceState EXCEPT ![resource] = newState]
        /\ numBarriersToFlush' = e.count
        /\ lastFlush' = IF b.flushed > 0 THEN b.flushed ELSE e.flushed
        /\ lastCommand' = "none"
        /\ UNCHANGED commandBufferState
        /\ UNCHANGED otherThanBarrier

\* D3D12CommandBuffer::Draw (and the other draws): PrepareDraw, then the
\* draw is recorded; the batch of barriers is not touched
D3D12CommandBuffer_Draw ==
    /\ commandBufferState = "recording"
    /\ lastCommand' = "DrawInstanced"
    /\ lastFlush' = 0
    /\ UNCHANGED <<numBarriersToFlush, resourceState, commandBufferState>>
    /\ UNCHANGED otherThanBarrier

\* D3D12CommandBuffer::Dispatch: the dispatch is recorded
D3D12CommandBuffer_Dispatch ==
    /\ commandBufferState = "recording"
    /\ lastCommand' = "Dispatch"
    /\ lastFlush' = 0
    /\ UNCHANGED <<numBarriersToFlush, resourceState, commandBufferState>>
    /\ UNCHANGED otherThanBarrier

\* D3D12Device::Submit reaches its loop over the swapchains the command
\* buffer acquired
D3D12Device_Submit_Begin ==
    /\ commandBufferState = "recording"
    /\ commandBufferState' = "submit"
    /\ lastCommand' = "none"
    /\ lastFlush' = 0
    /\ UNCHANGED <<numBarriersToFlush, resourceState>>
    /\ UNCHANGED otherThanBarrier

\* FlushResourceBarriers called by Submit after the loop, before the
\* command list is closed
D3D12CommandBuffer_FlushResourceBarriers ==
    /\ commandBufferState = "submit"
    /\ numBarriersToFlush' = FlushResourceBarriers(numBarriersToFlush).count
    /\ lastFlush' = FlushResourceBarriers(numBarriersToFlush).flushed
    /\ commandBufferState' = "closed"
    /\ lastCommand' = "none"
    /\ UNCHANGED resourceState
    /\ UNCHANGED otherThanBarrier

\* D3D12CommandBuffer::Begin, which starts with Reset: the batch is dropped
D3D12CommandBuffer_Begin ==
    /\ commandBufferState = "closed"
    /\ numBarriersToFlush' = 0
    /\ lastFlush' = 0
    /\ commandBufferState' = "recording"
    /\ lastCommand' = "none"
    /\ UNCHANGED resourceState
    /\ UNCHANGED otherThanBarrier

\* a command buffer after Begin; every resource starts as a backbuffer does
BarrierInit ==
    /\ numBarriersToFlush = 0
    /\ resourceState = [r \in BarrierResources |-> "PRESENT"]
    /\ lastFlush = 0
    /\ commandBufferState = "recording"
    /\ lastCommand = "none"

BarrierNext ==
    \/ D3D12CommandBuffer_FlushResourceBarriers
    \/ D3D12CommandBuffer_Begin
    \/ D3D12CommandBuffer_Draw
    \/ D3D12CommandBuffer_Dispatch
    \/ D3D12Device_Submit_Begin
    \/ \E resource \in BarrierResources, newState \in ResourceStates, flushImmediate \in BOOLEAN :
            D3D12CommandBuffer_TransitionResource(resource, newState, flushImmediate)

(***************************************************************************)
(* One descriptor allocator called from several threads.  AllocateDescrip- *)
(* tors and ReleaseDescriptors hold the std::lock_guard on mutex from      *)
(* their first statement to their return; GetCpuHandle, GetGpuHandle,      *)
(* GetCpuHandleShaderVisible and CopyToShaderVisibleHeap take no lock.     *)
(* A growth is followed in two steps: up to numDescriptors =               *)
(* numDescriptors_ in AllocateResources, where both heaps are released and *)
(* the start handles still hold the addresses of the old heaps, and from   *)
(* there to the return of AllocateDescriptors.                             *)
(***************************************************************************)
\* number of threads that call into the allocator
NumThreads == 2

Threads == 1..NumThreads

\* largest number of ranges the threads hold at a time
MaxThreadLive == 2

IdleThread == [pc |-> "idle", count |-> 0, oob |-> FALSE, old |-> D3D12DescriptorAllocator]

NoRead == [op |-> "none", thread |-> 0, holder |-> 0, handle |-> 0, heap |-> 0,
           numDescriptors |-> 0, capacity |-> 0]

\* std::lock_guard<std::mutex> guard(mutex) of AllocateDescriptors
Thread_AllocateDescriptors_Lock(t, count) ==
    /\ allocatorThread[t].pc = "idle"
    /\ allocatorMutex = 0
    /\ Len(live) < MaxThreadLive
    /\ allocatorMutex' = t
    /\ allocatorThread' = [allocatorThread EXCEPT ![t] = [IdleThread EXCEPT !.pc = "locked",
                                                                        !.count = count]]
    /\ lastRead' = NoRead
    /\ UNCHANGED allocVars
    /\ UNCHANGED otherThanLock

\* the scan; when it finds a range the call marks it and returns, when it
\* does not the call enters Grow and AllocateResources, which releases both
\* heaps and sets numDescriptors
Thread_AllocateDescriptors_Scan(t, oob) ==
    LET count == allocatorThread[t].count
        f == FindRange(allocator, count, allocator.searchStart, 0, oob)
        newSize == vgpuNextPowerOfTwo(allocator.numDescriptors + count)
        r == D3D12DescriptorAllocator_AllocateDescriptors(allocator, count, "ok", TRUE, oob)
    IN  /\ allocatorThread[t].pc = "locked"
        /\ IF f.found
           THEN /\ allocator' = r.a
                /\ live' = InsertRange(live, [index |-> r.index, count |-> count])
                /\ lastAlloc' = [NoAlloc EXCEPT !.op = "allocate", !.index = r.index,
                                                !.count = count]
                /\ allocatorMutex' = 0
                /\ allocatorThread' = [allocatorThread EXCEPT ![t] = IdleThread]
           ELSE /\ newSize <= MaxCapacity
                /\ allocator' = D3D12DescriptorAllocator_AllocateResources(
                                    allocator, newSize, "fail_heap").a
                /\ allocatorThread' = [allocatorThread EXCEPT ![t].pc = "growing",
                                                              ![t].oob = oob,
                                                              ![t].old = allocator]
                /\ UNCHANGED <<live, lastAlloc, allocatorMutex>>
        /\ lastRead' = NoRead
        /\ UNCHANGED otherThanLock

\* the rest of AllocateResources, the copies of Grow, the marking of the
\* range, the return and with it the unlock
Thread_AllocateDescriptors_Grow(t, outcome, uafIntact) ==
    LET count == allocatorThread[t].count
        r == D3D12DescriptorAllocator_AllocateDescriptors(allocatorThread[t].old, count,
                                                          outcome, uafIntact,
                                                          allocatorThread[t].oob)
    IN  /\ allocatorThread[t].pc = "growing"
        /\ outcome \in CreateOutcomes(allocator)
        /\ allocator' = r.a
        /\ live' = IF r.index = kInvalidDescriptorIndex
                   THEN live
                   ELSE InsertRange(live, [index |-> r.index, count |-> count])
        /\ lastAlloc' = [NoAlloc EXCEPT !.op = "allocate", !.index = r.index,
                                        !.count = count, !.grew = r.grew,
                                        !.srcAlive = r.srcAlive]
        /\ allocatorMutex' = 0
        /\ allocatorThread' = [allocatorThread EXCEPT ![t] = IdleThread]
        /\ lastRead' = NoRead
        /\ UNCHANGED otherThanLock

\* ReleaseDescriptors of the k-th range held, under its lock_guard
Thread_ReleaseDescriptors(t, k) ==
    /\ allocatorThread[t].pc = "idle"
    /\ allocatorMutex = 0
    /\ k \in 1..Len(live)
    /\ allocator' = D3D12DescriptorAllocator_ReleaseDescriptors(allocator, live[k].index,
                                                                live[k].count)
    /\ live' = RemoveAt(live, k)
    /\ lastAlloc' = [NoAlloc EXCEPT !.op = "release", !.index = live[k].index,
                                    !.count = live[k].count]
    /\ lastRead' = NoRead
    /\ UNCHANGED <<allocatorMutex, allocatorThread>>
    /\ UNCHANGED otherThanLock

\* what a call without a lock finds: the start handle it computes with, the
\* heap and the capacity the allocator has at that moment, and the thread
\* that is inside AllocateDescriptors
Observe(op, t) ==
    [op |-> op, thread |-> t, holder |-> allocatorMutex,
     handle |-> allocator.startCpuHandle, heap |-> allocator.heap,
     numDescriptors |-> allocator.numDescriptors,
     capacity |-> Len(allocator.descriptors)]

\* GetCpuHandle(index) for a descriptor of the k-th range held: reads
\* startCpuHandle
Thread_GetCpuHandle(t, k) ==
    /\ allocatorThread[t].pc = "idle"
    /\ k \in 1..Len(live)
    /\ lastRead' = Observe("GetCpuHandle", t)
    /\ UNCHANGED <<allocVars, allocatorMutex, allocatorThread>>
    /\ UNCHANGED otherThanLock

\* CopyToShaderVisibleHeap(index, count) of the k-th range held: reads both
\* start handles and copies; a copy through the handles of released heaps
\* lands outside the heaps of the allocator
Thread_CopyToShaderVisibleHeap(t, k) ==
    /\ allocatorThread[t].pc = "idle"
    /\ k \in 1..Len(live)
    /\ allocator.shaderVisible
    /\ allocator' = IF HandlesValid(allocator)
                    THEN D3D12DescriptorAllocator_CopyToShaderVisibleHeap(
                             allocator, live[k].index, live[k].count)
                    ELSE allocator
    /\ lastRead' = Observe("CopyToShaderVisibleHeap", t)
    /\ UNCHANGED <<live, lastAlloc, allocatorMutex, allocatorThread>>
    /\ UNCHANGED otherThanLock

LockInit ==
    /\ allocatorMutex = 0
    /\ allocatorThread = [t \in Threads |-> IdleThread]
    /\ lastRead = NoRead

LockNext ==
    \/ \E t \in Threads, count \in 1..MaxCount : Thread_AllocateDescriptors_Lock(t, count)
    \/ \E t \in Threads, oob \in BOOLEAN : Thread_AllocateDescriptors_Scan(t, oob)
    \/ \E t \in Threads, outcome \in {"ok", "fail_heap", "fail_shader_visible"},
          uafIntact \in BOOLEAN : Thread_AllocateDescriptors_Grow(t, outcome, uafIntact)
    \/ \E t \in Threads, k \in 1..MaxThreadLive : Thread_ReleaseDescriptors(t, k)
    \/ \E t \in Threads, k \in 1..MaxThreadLive : Thread_GetCpuHandle(t, k)
    \/ \E t \in Threads, k \in 1..MaxThreadLive : Thread_CopyToShaderVisibleHeap(t, k)

(***************************************************************************)
(* Resource destruction from several threads.  The owners of native        *)
(* handles are destroyed on any thread and call DeferDestroy; thread 1 is  *)
(* the frame thread, which calls Submit and with it ProcessDeletionQueue.  *)
(* Every statement that touches deferredReleases or deferredAllocations is *)
(* a step of its own, between destroyMutex.lock() and                      *)
(* destroyMutex.unlock().                                                  *)
(***************************************************************************)
\* largest frame counter the frame thread reaches
MaxDestroyFrames == 4

FrameThread == 1

IdleDestroy == [pc |-> "idle", h |-> 0, withAllocation |-> FALSE]

\* the handles some thread is inside DeferDestroy with
InDeferDestroy == {destroyThread[t].h : t \in Threads} \ {0}

\* a lock() that returns without taking the mutex
DestroyMutex_Lock_Skipped(t) == UNCHANGED destroyMutex

\* destroyMutex.lock(): returns when no thread holds the mutex
DestroyMutex_Lock(t) == destroyMutex = 0 /\ destroyMutex' = t

\* destroyMutex.unlock()
DestroyMutex_Unlock(t) == destroyMutex' = 0

\* the owner of the live handle h is destroyed on thread t and calls
\* DeferDestroy(resource, allocation): the thread arrives at lock()
Thread_DeferDestroy_Call(t, h, withAllocation) ==
    /\ destroyThread[t].pc = "idle"
    /\ res[h].st = "live"
    /\ h \notin InDeferDestroy
    /\ \A g \in Handles : g < h => (res[g].st # "live" \/ g \in InDeferDestroy)
    /\ destroyThread' = [destroyThread EXCEPT
                            ![t] = [pc |-> "lock", h |-> h, withAllocation |-> withAllocation]]
    /\ UNCHANGED <<deviceVars, destroyMutex>>
    /\ UNCHANGED otherThanDestroy

Thread_DeferDestroy_Lock(t) ==
    /\ destroyThread[t].pc = "lock"
    /\ DestroyMutex_Lock(t)
    /\ destroyThread' = [destroyThread EXCEPT ![t].pc = "push_release"]
    /\ UNCHANGED deviceVars
    /\ UNCHANGED otherThanDestroy

\* the test of shuttingDown and either the two Release calls or
\* deferredReleases.push_back
Thread_DeferDestroy_PushRelease(t) ==
    LET h == destroyThread[t].h
        withAllocation == destroyThread[t].withAllocation
    IN  /\ destroyThread[t].pc = "push_release"
        /\ IF DeferDestroy_Synchronous
           THEN /\ res' = MarkReleased([res EXCEPT ![h].f = frameCount], {h},
                                       IF withAllocation THEN {h} ELSE {}, frameCount, "sync")
                /\ destroyThread' = [destroyThread EXCEPT ![t].pc = "unlock"]
                /\ UNCHANGED deferredReleases
           ELSE /\ deferredReleases' = Append(deferredReleases,
                                              [h |-> h, frame |-> frameCount])
                /\ res' = [res EXCEPT ![h].st = "queued", ![h].f = frameCount]
                /\ destroyThread' = [destroyThread EXCEPT
                                        ![t].pc = IF withAllocation THEN "push_allocation"
                                                  ELSE "unlock"]
        /\ UNCHANGED <<backend, pc, frameCount, frameIndex, submitted, gpuDone, shuttingDown,
                       deferredAllocations, frameFences, destroyed, frames, lastOp,
                       destroyMutex>>
        /\ UNCHANGED otherThanDestroy

\* deferredAllocations.push_back
Thread_DeferDestroy_PushAllocation(t) ==
    LET h == destroyThread[t].h
    IN  /\ destroyThread[t].pc = "push_allocation"
        /\ deferredAllocations' = Append(deferredAllocations, [h |-> h, frame |-> frameCount])
        /\ res' = [res EXCEPT ![h].alloc = "queued"]
        /\ destroyThread' = [destroyThread EXCEPT ![t].pc = "unlock"]
        /\ UNCHANGED <<backend, pc, frameCount, frameIndex, submitted, gpuDone, shuttingDown,
                       deferredReleases, frameFences, destroyed, frames, lastOp,
                       destroyMutex>>
        /\ UNCHANGED otherThanDestroy

\* destroyMutex.unlock() and the return of DeferDestroy or of
\* ProcessDeletionQueue
Thread_Unlock(t) ==
    /\ destroyThread[t].pc = "unlock"
    /\ DestroyMutex_Unlock(t)
    /\ destroyThread' = [destroyThread EXCEPT ![t] = IdleDestroy]
    /\ UNCHANGED deviceVars
    /\ UNCHANGED otherThanDestroy

\* Submit on the frame thread up to its call of ProcessDeletionQueue: the
\* frame counter advances, outside the destroy mutex
Thread_Submit ==
    /\ destroyThread[FrameThread].pc = "idle"
    /\ frameCount < MaxDestroyFrames
    /\ frameCount' = frameCount + 1
    /\ frameIndex' = (frameCount + 1) % MAX_INFLIGHT_FRAMES
    /\ submitted' = [q \in Queues |-> submitted[q] + 1]
    /\ gpuDone' = [q \in Queues |-> gpuDone[q] + 1]
    /\ destroyThread' = [destroyThread EXCEPT ![FrameThread].pc = "pdq_lock"]
    /\ UNCHANGED <<backend, pc, shuttingDown, deferredReleases, deferredAllocations,
                   frameFences, destroyed, frames, res, lastOp, destroyMutex>>
    /\ UNCHANGED otherThanDestroy

Thread_ProcessDeletionQueue_Lock ==
    /\ destroyThread[FrameThread].pc = "pdq_lock"
    /\ DestroyMutex_Lock(FrameThread)
    /\ destroyThread' = [destroyThread EXCEPT ![FrameThread].pc = "pdq_allocations"]
    /\ UNCHANGED deviceVars
    /\ UNCHANGED otherThanDestroy

\* one pass of the first while loop: the front allocation is popped and
\* released, or the loop ends
Thread_ProcessDeletionQueue_Allocation ==
    /\ destroyThread[FrameThread].pc = "pdq_allocations"
    /\ IF deferredAllocations # <<>> /\ D3D12_Eligible(Head(deferredAllocations), frameCount)
       THEN /\ deferredAllocations' = Tail(deferredAllocations)
            /\ res' = MarkReleased(res, {}, {Head(deferredAllocations).h}, frameCount, "pdq")
            /\ UNCHANGED destroyThread
       ELSE /\ destroyThread' = [destroyThread EXCEPT ![FrameThread].pc = "pdq_releases"]
            /\ UNCHANGED <<deferredAllocations, res>>
    /\ UNCHANGED <<backend, pc, frameCount, frameIndex, submitted, gpuDone, shuttingDown,
                   deferredReleases, frameFences, destroyed, frames, lastOp, destroyMutex>>
    /\ UNCHANGED otherThanDestroy

\* one pass of the second while loop
Thread_ProcessDeletionQueue_Release ==
    /\ destroyThread[FrameThread].pc = "pdq_releases"
    /\ IF deferredReleases # <<>> /\ D3D12_Eligible(Head(deferredReleases), frameCount)
       THEN /\ deferredReleases' = Tail(deferredReleases)
            /\ res' = MarkReleased(res, {Head(deferredReleases).h}, {}, frameCount, "pdq")
            /\ UNCHANGED destroyThread
       ELSE /\ destroyThread' = [destroyThread EXCEPT ![FrameThread].pc = "unlock"]
            /\ UNCHANGED <<deferredReleases, res>>
    /\ UNCHANGED <<backend, pc, frameCount, frameIndex, submitted, gpuDone, shuttingDown,
                   deferredAllocations, frameFences, destroyed, frames, lastOp, destroyMutex>>
    /\ UNCHANGED otherThanDestroy

DestroyInit ==
    /\ destroyMutex = 0
    /\ destroyThread = [t \in Threads |-> IdleDestroy]

DestroyNext ==
    \/ \E t \in Threads, h \in Handles, withAllocation \in BOOLEAN :
            Thread_DeferDestroy_Call(t, h, withAllocation)
    \/ \E t \in Threads : Thread_DeferDestroy_Lock(t)
    \/ \E t \in Threads : Thread_DeferDestroy_PushRelease(t)
    \/ \E t \in Threads : Thread_DeferDestroy_PushAllocation(t)
    \/ \E t \in Threads : Thread_Unlock(t)
    \/ Thread_Submit
    \/ Thread_ProcessDeletionQueue_Lock
    \/ Thread_ProcessDeletionQueue_Allocation
    \/ Thread_ProcessDeletionQueue_Release

(***************************************************************************)
(* The pool of command buffers.  BeginCommandBuffer is called from any     *)
(* thread; Submit is called by the frame thread when no call of            *)
(* BeginCommandBuffer is in progress.  A command buffer is named by its    *)
(* position in commandBuffersPool, so commandBuffersPool.back() is the     *)
(* length of the pool.                                                     *)
(***************************************************************************)
\* largest number of BeginCommandBuffer calls between two Submit calls
MaxBegins == 2

IdlePool == [pc |-> "idle", commandBuffer |-> 0, overlapped |-> FALSE, wasRecording |-> FALSE]

\* the threads inside BeginCommandBuffer
InBegin == {t \in Threads : poolThread[t].pc # "idle"}

\* the buffer the reuse branch takes: commandBuffersPool.back()
BeginCommandBuffer_Reuse(pool, cmd_current) == Len(pool)

\* the value of the return statement: commandBuffersPool.back(), read after
\* the unlock
BeginCommandBuffer_ReturnValue(pool, commandBuffer) == Len(pool)

\* a thread calls BeginCommandBuffer and arrives at cmdBuffersLocker.lock();
\* its call overlaps the calls of the threads that are inside
Thread_BeginCommandBuffer_Call(t) ==
    /\ poolThread[t].pc = "idle"
    /\ Len(handedOut) + Cardinality(InBegin) < MaxBegins
    /\ poolThread' = [u \in Threads |->
                         IF u = t
                         THEN [IdlePool EXCEPT !.pc = "lock", !.overlapped = (InBegin # {})]
                         ELSE IF u \in InBegin
                         THEN [poolThread[u] EXCEPT !.overlapped = TRUE]
                         ELSE poolThread[u]]
    /\ UNCHANGED <<cmdBuffersLocker, cmdBuffersCount, commandBuffersPool, handedOut>>
    /\ UNCHANGED otherThanPool

Thread_BeginCommandBuffer_Lock(t) ==
    /\ poolThread[t].pc = "lock"
    /\ cmdBuffersLocker = 0
    /\ cmdBuffersLocker' = t
    /\ poolThread' = [poolThread EXCEPT ![t].pc = "checkout"]
    /\ UNCHANGED <<cmdBuffersCount, commandBuffersPool, handedOut>>
    /\ UNCHANGED otherThanPool

\* cmd_current = cmdBuffersCount++, then a new buffer is pushed or a pooled
\* one is taken, then the unlock
Thread_BeginCommandBuffer_Checkout(t) ==
    LET cmd_current == cmdBuffersCount
    IN  /\ poolThread[t].pc = "checkout"
        /\ cmdBuffersCount' = cmdBuffersCount + 1
        /\ IF cmd_current >= Len(commandBuffersPool)
           THEN /\ commandBuffersPool' = Append(commandBuffersPool, "initial")
                /\ poolThread' = [poolThread EXCEPT
                                     ![t].pc = "begin",
                                     ![t].commandBuffer = Len(commandBuffersPool) + 1]
           ELSE /\ poolThread' = [poolThread EXCEPT
                                     ![t].pc = "begin",
                                     ![t].commandBuffer =
                                         BeginCommandBuffer_Reuse(commandBuffersPool,
                                                                  cmd_current)]
                /\ UNCHANGED commandBuffersPool
        /\ cmdBuffersLocker' = 0
        /\ UNCHANGED handedOut
        /\ UNCHANGED otherThanPool

\* commandBuffer->Begin(frameIndex, label): the buffer is reset and starts
\* recording, whatever state it was in
Thread_BeginCommandBuffer_Begin(t) ==
    LET commandBuffer == poolThread[t].commandBuffer
    IN  /\ poolThread[t].pc = "begin"
        /\ commandBuffersPool' = [commandBuffersPool EXCEPT ![commandBuffer] = "recording"]
        /\ poolThread' = [poolThread EXCEPT
                             ![t].pc = "return",
                             ![t].wasRecording =
                                 (commandBuffersPool[commandBuffer] = "recording")]
        /\ UNCHANGED <<cmdBuffersLocker, cmdBuffersCount, handedOut>>
        /\ UNCHANGED otherThanPool

\* return commandBuffersPool.back()
Thread_BeginCommandBuffer_Return(t) ==
    /\ poolThread[t].pc = "return"
    /\ handedOut' = Append(handedOut,
                           [thread |-> t,
                            commandBuffer |-> poolThread[t].commandBuffer,
                            returned |-> BeginCommandBuffer_ReturnValue(
                                             commandBuffersPool, poolThread[t].commandBuffer),
                            overlapped |-> poolThread[t].overlapped,
                            wasRecording |-> poolThread[t].wasRecording])
    /\ poolThread' = [poolThread EXCEPT ![t] = IdlePool]
    /\ UNCHANGED <<cmdBuffersLocker, cmdBuffersCount, commandBuffersPool>>
    /\ UNCHANGED otherThanPool

\* Submit of the buffers handed out: they are closed and executed and
\* cmdBuffersCount = 0
Pool_Submit ==
    /\ InBegin = {}
    /\ handedOut # <<>>
    /\ cmdBuffersCount' = 0
    /\ commandBuffersPool' = [b \in 1..Len(commandBuffersPool) |-> "closed"]
    /\ handedOut' = <<>>
    /\ UNCHANGED <<cmdBuffersLocker, poolThread>>
    /\ UNCHANGED otherThanPool

PoolInit ==
    /\ cmdBuffersLocker = 0
    /\ cmdBuffersCount = 0
    /\ commandBuffersPool = <<>>
    /\ poolThread = [t \in Threads |-> IdlePool]
    /\ handedOut = <<>>

PoolNext ==
    \/ \E t \in Threads : Thread_BeginCommandBuffer_Call(t)
    \/ \E t \in Threads : Thread_BeginCommandBuffer_Lock(t)
    \/ \E t \in Threads : Thread_BeginCommandBuffer_Checkout(t)
    \/ \E t \in Threads : Thread_BeginCommandBuffer_Begin(t)
    \/ \E t \in Threads : Thread_BeginCommandBuffer_Return(t)
    \/ Pool_Submit

(***************************************************************************)
(* Descriptor tables and the GPU.  The ranges of shaderResourceViewHeap    *)
(* are the CBV/SRV/UAV tables of bind groups.  A command buffer that has   *)
(* a bind group set holds a reference to it until its next Reset; the      *)
(* command list it records reads the table through GetGpuHandle while the  *)
(* GPU executes it.  Submit waits until fewer than MAX_INFLIGHT_FRAMES     *)
(* submissions are unfinished, so the next recording starts while earlier  *)
(* submissions are executing.                                              *)
(***************************************************************************)
NoTable == [index |-> 0, count |-> 0]

\* do two ranges of descriptors share an index
Overlap(r, s) ==
    /\ r.count > 0 /\ s.count > 0
    /\ r.index < s.index + s.count
    /\ s.index < r.index + r.count

\* vgpuCreateBindGroup with a table of count descriptors: Update, which
\* only vgpuCreateBindGroup calls, finds no table to release and allocates
\* one
Reuse_CreateBindGroup(count) ==
    LET r == D3D12DescriptorAllocator_AllocateDescriptors(allocator, count, "ok", TRUE, FALSE)
    IN  /\ Len(live) < MaxThreadLive
        /\ r.a.numDescriptors <= MaxCapacity
        /\ allocator' = r.a
        /\ live' = InsertRange(live, [index |-> r.index, count |-> count])
        /\ lastAlloc' = [NoAlloc EXCEPT !.op = "allocate", !.index = r.index,
                                        !.count = count, !.grew = r.grew]
        /\ UNCHANGED reuseVars
        /\ UNCHANGED otherThanReuse

\* the last reference to the bind group that owns the k-th table is
\* dropped: ~D3D12BindGroup releases the table if its base index is not 0.
\* The bind group set on the command buffer is kept alive by it.
Reuse_DestroyBindGroup(k) ==
    /\ k \in 1..Len(live)
    /\ live[k] # boundTable
    /\ allocator' = IF live[k].index # 0
                    THEN D3D12DescriptorAllocator_ReleaseDescriptors(
                             allocator, live[k].index, live[k].count)
                    ELSE allocator
    /\ live' = RemoveAt(live, k)
    /\ lastAlloc' = [NoAlloc EXCEPT !.op = "release", !.index = live[k].index,
                                    !.count = live[k].count]
    /\ UNCHANGED reuseVars
    /\ UNCHANGED otherThanReuse

\* SetBindGroup(0, bindGroup) with the owner of the k-th table, on the
\* command buffer that is recording
Reuse_SetBindGroup(k) ==
    /\ k \in 1..Len(live)
    /\ recording
    /\ boundTable = NoTable
    /\ boundTable' = live[k]
    /\ lastAlloc' = NoAlloc
    /\ UNCHANGED <<allocator, live, gpuReading, recording>>
    /\ UNCHANGED otherThanReuse

\* a draw, then Submit: the command list goes to the GPU with the root
\* descriptor table it was given
Reuse_Submit ==
    /\ recording
    /\ boundTable # NoTable
    /\ Len(gpuReading) < MAX_INFLIGHT_FRAMES
    /\ gpuReading' = Append(gpuReading, boundTable)
    /\ recording' = FALSE
    /\ lastAlloc' = NoAlloc
    /\ UNCHANGED <<allocator, live, boundTable>>
    /\ UNCHANGED otherThanReuse

\* BeginCommandBuffer for the next frame: Reset drops the references to the
\* bound bind groups
Reuse_Begin ==
    /\ ~recording
    /\ recording' = TRUE
    /\ boundTable' = NoTable
    /\ lastAlloc' = NoAlloc
    /\ UNCHANGED <<allocator, live, gpuReading>>
    /\ UNCHANGED otherThanReuse

\* the GPU finishes the oldest submission
Reuse_GpuComplete ==
    /\ gpuReading # <<>>
    /\ gpuReading' = Tail(gpuReading)
    /\ lastAlloc' = NoAlloc
    /\ UNCHANGED <<allocator, live, boundTable, recording>>
    /\ UNCHANGED otherThanReuse

ReuseInit ==
    /\ boundTable = NoTable
    /\ gpuReading = <<>>
    /\ recording = TRUE

ReuseNext ==
    \/ \E count \in 1..MaxCount : Reuse_CreateBindGroup(count)
    \/ \E k \in 1..MaxThreadLive : Reuse_DestroyBindGroup(k)
    \/ \E k \in 1..MaxThreadLive : Reuse_SetBindGroup(k)
    \/ Reuse_Submit
    \/ Reuse_Begin
    \/ Reuse_GpuComplete

(***************************************************************************)
(* D3D12Device::Submit of several command buffers: each command list is    *)
(* closed and staged in the pending list of its queue, then every queue    *)
(* executes and clears its list, then the swapchains are presented.        *)
(***************************************************************************)
\* largest number of command buffers begun before a Submit
MaxStageLists == 3
\* largest number of Submit calls followed
MaxStageCalls == 2

NoSubmit == [failed |-> FALSE, lists |-> {}]

\* the first loop of Submit over commandBuffers[0 .. n-1]: push_back of each
\* command list on the pending list of the queue of its command buffer
RECURSIVE Submit_Stage(_, _, _)
Submit_Stage(pending, buffers, n) ==
    IF n = 0 THEN pending
    ELSE LET before == Submit_Stage(pending, buffers, n - 1)
         IN  [before EXCEPT ![buffers[n].queue] = Append(@, buffers[n].list)]

\* the second loop of Submit: ExecuteCommandLists and clear() on every queue
\* whose pending list is not empty
Submit_Execute(pending) == [q \in Queues |-> <<>>]

\* D3D12Device::BeginCommandBuffer(queueType): the next command buffer of the pool
Stage_BeginCommandBuffer(q) ==
    /\ stagePoolCount < MaxStageLists
    /\ stagePoolCount' = stagePoolCount + 1
    /\ begun' = Append(begun, [list |-> stagePoolCount + 1, queue |-> q])
    /\ lastSubmit' = NoSubmit
    /\ UNCHANGED <<submitCommandLists, stageCalls>>
    /\ UNCHANGED otherThanStage

\* D3D12Device::Submit(commandBuffers, count) with the command buffers begun
\* so far: failAt is the index of the command list whose Close() fails (0:
\* none), lost tells whether Present reports the device removed or reset
Stage_Submit(failAt, lost) ==
    /\ begun # <<>>
    /\ stageCalls < MaxStageCalls
    /\ failAt \in 0..Len(begun)
    /\ stageCalls' = stageCalls + 1
    /\ begun' = <<>>
    /\ IF failAt # 0
       THEN /\ ~lost
            /\ submitCommandLists' = Submit_Stage(submitCommandLists, begun, failAt - 1)
            /\ lastSubmit' = [failed |-> TRUE,
                              lists |-> {begun[i].list : i \in 1..Len(begun)}]
            /\ UNCHANGED stagePoolCount
       ELSE /\ submitCommandLists' =
                   Submit_Execute(Submit_Stage(submitCommandLists, begun, Len(begun)))
            /\ stagePoolCount' = 0
            /\ lastSubmit' = [failed |-> lost,
                              lists |-> {begun[i].list : i \in 1..Len(begun)}]
    /\ UNCHANGED otherThanStage

StageInit ==
    /\ submitCommandLists = [q \in Queues |-> <<>>]
    /\ begun = <<>>
    /\ stagePoolCount = 0
    /\ stageCalls = 0
    /\ lastSubmit = NoSubmit

StageNext ==
    \/ \E q \in Queues : Stage_BeginCommandBuffer(q)
    \/ \E failAt \in 0..MaxStageLists, lost \in BOOLEAN : Stage_Submit(failAt, lost)

(***************************************************************************)
(* D3D12CommandBuffer::SetPipeline, SetBindGroup and Reset, and the        *)
(* reference counts of the objects they are given.  The caller keeps its   *)
(* own reference to every object.                                          *)
(***************************************************************************)
\* group indices explored (VGPU_MAX_BIND_GROUPS is 8)
NumGroupIndices == 2
\* largest number of SetPipeline and SetBindGroup calls followed
MaxRefSets == 4

Pipelines == {"pipelineA", "pipelineB"}
BindGroups == {"bindGroupA", "bindGroupB"}
GroupIndices == 0..(NumGroupIndices - 1)

\* no object
nullptr == "nullptr"

\* VGPUObject::AddRef and VGPUObject::Release on the counts rc
Object_AddRef(rc, o) == [rc EXCEPT ![o] = @ + 1]

Object_Release(rc, o) == [rc EXCEPT ![o] = @ - 1]

\* the loop of Reset over boundBindGroups[0 .. n-1]
RECURSIVE Reset_ReleaseBindGroups(_, _, _)
Reset_ReleaseBindGroups(rc, bound, n) ==
    IF n = 0 THEN rc
    ELSE LET before == Reset_ReleaseBindGroups(rc, bound, n - 1)
         IN  IF bound[n - 1] # nullptr THEN Object_Release(before, bound[n - 1]) ELSE before

\* the reference counts a Set call starts from are kept when it is the
\* first since the last Reset
RefBeforeFirstSet == IF lastRefOp = "reset" THEN refCount ELSE refBefore

\* D3D12CommandBuffer::SetPipeline(pipeline)
Ref_SetPipeline(pipeline) ==
    /\ refSets < MaxRefSets
    /\ refSets' = refSets + 1
    /\ refBefore' = RefBeforeFirstSet
    /\ lastRefOp' = "set"
    /\ IF currentPipeline = pipeline
       THEN UNCHANGED <<currentPipeline, refCount>>
       ELSE /\ currentPipeline' = pipeline
            /\ refCount' = Object_AddRef(refCount, pipeline)
    /\ UNCHANGED boundBindGroups
    /\ UNCHANGED otherThanRef

\* D3D12CommandBuffer::SetBindGroup(groupIndex, bindGroup)
Ref_SetBindGroup(groupIndex, group) ==
    /\ refSets < MaxRefSets
    /\ refSets' = refSets + 1
    /\ refBefore' = RefBeforeFirstSet
    /\ lastRefOp' = "set"
    /\ IF boundBindGroups[groupIndex] # group
       THEN /\ boundBindGroups' = [boundBindGroups EXCEPT ![groupIndex] = group]
            /\ refCount' = Object_AddRef(refCount, group)
       ELSE UNCHANGED <<boundBindGroups, refCount>>
    /\ UNCHANGED currentPipeline
    /\ UNCHANGED otherThanRef

\* D3D12CommandBuffer::Reset(), called by Begin and by the destructor
Ref_Reset ==
    /\ lastRefOp = "set"
    /\ LET rc == Reset_ReleaseBindGroups(refCount, boundBindGroups, NumGroupIndices)
       IN  refCount' = IF currentPipeline # nullptr THEN Object_Release(rc, currentPipeline) ELSE rc
    /\ boundBindGroups' = [i \in GroupIndices |-> nullptr]
    /\ currentPipeline' = nullptr
    /\ lastRefOp' = "reset"
    /\ UNCHANGED <<refBefore, refSets>>
    /\ UNCHANGED otherThanRef

RefInit ==
    /\ refCount = [o \in Pipelines \cup BindGroups |-> 1]
    /\ currentPipeline = nullptr
    /\ boundBindGroups = [i \in GroupIndices |-> nullptr]
    /\ refBefore = [o \in Pipelines \cup BindGroups |-> 1]
    /\ refSets = 0
    /\ lastRefOp = "reset"

RefNext ==
    \/ \E pipeline \in Pipelines : Ref_SetPipeline(pipeline)
    \/ \E groupIndex \in GroupIndices, group \in BindGroups :
           Ref_SetBindGroup(groupIndex, group)
    \/ Ref_Reset

(***************************************************************************)
(* d3d12_isSupported / vulkan_isSupported: two function-local statics      *)
(* without a lock; each statement of a call is a step of its thread.       *)
(***************************************************************************)
\* largest number of calls one thread makes
MaxProbeCalls == 3

IdleProbe == [pc |-> "idle", ret |-> FALSE, calls |-> 0]

\* if (available_initialized) return available;
Probe_TestFlag(t) ==
    /\ probeThread[t].pc = "idle"
    /\ probeThread[t].calls < MaxProbeCalls
    /\ probeThread' = [probeThread EXCEPT
           ![t].calls = @ + 1,
           ![t].pc = IF available_initialized THEN "returned" ELSE "set_flag",
           ![t].ret = IF available_initialized THEN available ELSE FALSE]
    /\ UNCHANGED <<available_initialized, available, probeSupported, probeRuns>>
    /\ UNCHANGED otherThanProbe

\* available_initialized = true; and the probe starts
Probe_SetFlag(t) ==
    /\ probeThread[t].pc = "set_flag"
    /\ available_initialized' = TRUE
    /\ probeRuns' = probeRuns + 1
    /\ probeThread' = [probeThread EXCEPT ![t].pc = "probing"]
    /\ UNCHANGED <<available, probeSupported>>
    /\ UNCHANGED otherThanProbe

\* the probe ends: return false when something is missing, otherwise
\* available = true; return true
Probe_Finish(t) ==
    /\ probeThread[t].pc = "probing"
    /\ available' = IF probeSupported THEN TRUE ELSE available
    /\ probeThread' = [probeThread EXCEPT ![t].pc = "returned", ![t].ret = probeSupported]
    /\ UNCHANGED <<available_initialized, probeSupported, probeRuns>>
    /\ UNCHANGED otherThanProbe

\* the caller goes on and may call again
Probe_Return(t) ==
    /\ probeThread[t].pc = "returned"
    /\ probeThread[t].calls < MaxProbeCalls
    /\ probeThread' = [probeThread EXCEPT ![t].pc = "idle"]
    /\ UNCHANGED <<available_initialized, available, probeSupported, probeRuns>>
    /\ UNCHANGED otherThanProbe

\* the statics as the program starts; probeSupported stays FALSE while
\* another part of the program is followed
ProbeInit ==
    /\ available_initialized = FALSE
    /\ available = FALSE
    /\ probeSupported = FALSE
    /\ probeThread = [t \in Threads |-> IdleProbe]
    /\ probeRuns = 0

\* a machine that supports the backend
Probe_Machine ==
    /\ probeRuns = 0
    /\ ~probeSupported
    /\ \A t \in Threads : probeThread[t] = IdleProbe
    /\ probeSupported' = TRUE
    /\ UNCHANGED <<available_initialized, available, probeThread, probeRuns>>
    /\ UNCHANGED otherThanProbe

ProbeNext ==
    \/ Probe_Machine
    \/ \E t \in Threads : Probe_TestFlag(t)
    \/ \E t \in Threads : Probe_SetFlag(t)
    \/ \E t \in Threads : Probe_Finish(t)
    \/ \E t \in Threads : Probe_Return(t)

\* the threads before any of them has called into the device
ThreadsParked == LockInit /\ DestroyInit /\ PoolInit /\ ReuseInit /\ StageInit /\ RefInit /\ ProbeInit

(***************************************************************************)
(* The specifications: each follows one part of the program and leaves     *)
(* the others as they are.                                                 *)
(***************************************************************************)
\* the device before its first frame, with every handle alive
DeviceParked ==
    /\ backend = "d3d12"
    /\ pc = "idle"
    /\ frameCount = 0
    /\ frameIndex = 0
    /\ submitted = [q \in Queues |-> 0]
    /\ gpuDone = [q \in Queues |-> 0]
    /\ shuttingDown = FALSE
    /\ deferredReleases = <<>>
    /\ deferredAllocations = <<>>
    /\ frameFences = [q \in Queues |-> [s \in Slots |-> 0]]
    /\ destroyed = [k \in VkKindSet |-> <<>>]
    /\ frames = [s \in Slots |-> FALSE]
    /\ res = [h \in Handles |-> NewHandle]
    /\ lastOp = "other"

\* the frame pacer and the deferred destruction of both backends
SpecDeviceInit == DeviceInit /\ AllocParked /\ BindParked /\ UploadInit /\ PresentParked /\ BarrierInit /\ ThreadsParked

SpecDevice == SpecDeviceInit /\ [][DeviceNext]_vars

\* the command lists staged by Submit
SpecStageInit == DeviceParked /\ AllocParked /\ BindParked /\ UploadInit /\ PresentParked /\ BarrierInit /\ ThreadsParked

SpecStage == SpecStageInit /\ [][StageNext]_vars

\* the references of one command buffer
SpecRefInit == DeviceParked /\ AllocParked /\ BindParked /\ UploadInit /\ PresentParked /\ BarrierInit /\ ThreadsParked

SpecRef == SpecRefInit /\ [][RefNext]_vars

\* the threads that ask whether a backend is supported
SpecProbeInit == DeviceParked /\ AllocParked /\ BindParked /\ UploadInit /\ PresentParked /\ BarrierInit /\ ThreadsParked

SpecProbe == SpecProbeInit /\ [][ProbeNext]_vars

\* one descriptor allocator and its callers
SpecAllocInit == AllocInit /\ DeviceParked /\ BindParked /\ UploadInit /\ PresentParked /\ BarrierInit /\ ThreadsParked

SpecAlloc == SpecAllocInit /\ [][AllocNext]_vars

\* one bind group layout and one bind group
SpecBindInit == BindInit /\ DeviceParked /\ AllocParked /\ UploadInit /\ PresentParked /\ BarrierInit /\ ThreadsParked

SpecBind == SpecBindInit /\ [][BindNext]_vars

\* the upload ring and the queues of the GPU
SpecUploadInit == UploadInit /\ DeviceParked /\ AllocParked /\ BindParked /\ PresentParked /\ BarrierInit /\ ThreadsParked

SpecUpload == SpecUploadInit /\ [][UploadNext]_vars

\* the upload ring on a GPU that keeps running and with callers that go on
\* to UploadSubmit after UploadAllocate: the upload queue executes the copy
\* at its head, a queue whose Wait is satisfied gets past it, and a context
\* that was handed out is submitted
UploadFairness ==
    /\ WF_vars(Gpu_UploadQueueStep)
    /\ \A q \in Queues : WF_vars(Gpu_QueueStep(q))
    /\ WF_vars(\E k \in 1..MaxContexts : Fair_UploadSubmit(k))

SpecUploadFair == SpecUploadInit /\ [][UploadFairNext]_vars /\ UploadFairness

\* the swapchain of a window on a device of either backend
SpecPresentInit == PresentInit /\ DeviceInit /\ AllocParked /\ BindParked /\ UploadInit /\ BarrierInit /\ ThreadsParked

SpecPresent == SpecPresentInit /\ [][PresentNext]_vars

\* one descriptor allocator called from several threads
SpecLockInit ==
    /\ AllocInit /\ LockInit /\ DestroyInit /\ PoolInit /\ ReuseInit /\ StageInit /\ RefInit /\ ProbeInit
    /\ DeviceParked /\ BindParked /\ UploadInit /\ PresentParked /\ BarrierInit

SpecLock == SpecLockInit /\ [][LockNext]_vars

\* resources destroyed on several threads while the frame thread submits
SpecDestroyInit ==
    /\ DeviceParked /\ DestroyInit /\ LockInit /\ PoolInit /\ ReuseInit /\ StageInit /\ RefInit /\ ProbeInit
    /\ AllocParked /\ BindParked /\ UploadInit /\ PresentParked /\ BarrierInit

SpecDestroy == SpecDestroyInit /\ [][DestroyNext]_vars

\* the pool of command buffers and the threads that check buffers out
SpecPoolInit ==
    /\ PoolInit /\ LockInit /\ DestroyInit /\ ReuseInit /\ DeviceParked /\ StageInit /\ RefInit /\ ProbeInit
    /\ AllocParked /\ BindParked /\ UploadInit /\ PresentParked /\ BarrierInit

SpecPool == SpecPoolInit /\ [][PoolNext]_vars

\* the descriptor tables of bind groups and the GPU that reads them
SpecReuseInit ==
    /\ AllocInit /\ ReuseInit /\ LockInit /\ DestroyInit /\ PoolInit /\ StageInit /\ RefInit /\ ProbeInit
    /\ DeviceParked /\ BindParked /\ UploadInit /\ PresentParked /\ BarrierInit

SpecReuse == SpecReuseInit /\ [][ReuseNext]_vars

\* the barrier batch of a command buffer
SpecBarrierInit ==
    BarrierInit /\ DeviceParked /\ AllocParked /\ BindParked /\ UploadInit /\ PresentParked /\ ThreadsParked

SpecBarrier == SpecBarrierInit /\ [][BarrierNext]_vars

(***************************************************************************)
(* Deferred destruction and frame pacing: the properties.                  *)
(***************************************************************************)
\* the entries still waiting in a deletion queue of the active backend
QueuedHandles ==
    EntryHandles(deferredReleases) \cup UNION {EntryHandles(destroyed[k]) : k \in VkKindSet}

QueuedAllocations == EntryHandles(deferredAllocations)

\* C1: ProcessDeletionQueue releases an entry enqueued at frame f only when
\* the frame counter at that moment is strictly greater than
\* f + MAX_INFLIGHT_FRAMES; it never releases while counter - f < MAX_INFLIGHT_FRAMES.
C1_ReleasedOnlyAfterWindow ==
    \A h \in Handles :
        /\ res[h].by = "pdq" =>
              /\ res[h].rf > res[h].f + MAX_INFLIGHT_FRAMES
              /\ ~(res[h].rf - res[h].f < MAX_INFLIGHT_FRAMES)
        /\ res[h].alloc = "released" /\ res[h].by = "pdq" =>
              res[h].arf > res[h].f + MAX_INFLIGHT_FRAMES

\* a Submit / vulkan_frame released one entry at the first frame counter
\* that allows it and left a younger entry in the queue
C1_Witness ==
    \E h, g \in Handles :
        /\ res[h].by = "pdq"
        /\ res[h].rf = res[h].f + MAX_INFLIGHT_FRAMES + 1
        /\ res[g].st = "queued"
        /\ g \in QueuedHandles

\* C2: when ProcessDeletionQueue releases a native handle, every submission
\* made up to the moment the handle was handed to deferred destruction has
\* finished on the GPU (res[h].f submissions had been made at that moment).
C2_ReleasedAfterGpuFinished ==
    \A h \in Handles : res[h].by = "pdq" => ~res[h].busy

\* C3: on every queue at most MAX_INFLIGHT_FRAMES submitted frames are
\* unfinished on the GPU.
C3_InFlightBounded ==
    \A q \in Queues : submitted[q] - gpuDone[q] <= MAX_INFLIGHT_FRAMES

\* C6 as stated: a ProcessDeletionQueue call made when
\* frameCount - f >= MAX_INFLIGHT_FRAMES destroys the handle enqueued at frame f.
C6_DestroyedAtWindow ==
    lastOp = "pdq" =>
        \A h \in Handles :
            res[h].st = "queued" => ~(frameCount - res[h].f >= MAX_INFLIGHT_FRAMES)

\* C6 amended: a ProcessDeletionQueue call made when
\* frameCount - f > MAX_INFLIGHT_FRAMES destroys the handle enqueued at
\* frame f (and its allocation); no such entry is left in a queue.
C6_DestroyedPastWindow ==
    lastOp = "pdq" =>
        \A h \in Handles :
            /\ res[h].st = "queued" => ~(frameCount - res[h].f > MAX_INFLIGHT_FRAMES)
            /\ res[h].alloc = "queued" => ~(frameCount - res[h].f > MAX_INFLIGHT_FRAMES)
            /\ frameCount - res[h].f > MAX_INFLIGHT_FRAMES =>
                  h \notin QueuedHandles \cup QueuedAllocations

\* ProcessDeletionQueue has just run with the counter more than
\* MAX_INFLIGHT_FRAMES past the frame of a handle and released it there
C6_Witness ==
    /\ lastOp = "pdq"
    /\ \E h \in Handles :
          /\ res[h].by = "pdq"
          /\ res[h].rf = frameCount
          /\ frameCount - res[h].f > MAX_INFLIGHT_FRAMES

\* C7: after device shutdown every deferred-destruction queue is empty and
\* every handle that was ever enqueued has been released exactly once.
C7_ShutdownDrainsAll ==
    pc = "shutdown" =>
        /\ deferredReleases = <<>>
        /\ deferredAllocations = <<>>
        /\ \A k \in VkKindSet : destroyed[k] = <<>>
        /\ \A h \in Handles :
              /\ res[h].st # "queued"
              /\ res[h].alloc # "queued"
              /\ res[h].st = "released" => res[h].n = 1
              /\ res[h].alloc = "released" => res[h].an = 1

\* the device was shut down while entries were not yet eligible: the drain
\* at the sentinel released a handle no frame had made eligible
C7_Witness ==
    /\ pc = "shutdown"
    /\ \E h \in Handles :
          /\ res[h].by = "pdq"
          /\ res[h].rf = UINT64_MAX
          /\ res[h].n = 1

(***************************************************************************)
(* The descriptor allocator: the properties.                               *)
(***************************************************************************)
RangeEnd(r) == r.index + r.count

\* C4: no two ranges held by callers overlap, and every range handed out
\* lies inside [0, numDescriptors), also after the heap has grown.
C4_RangesDisjointAndInside ==
    /\ \A i \in 1..Len(live) :
          live[i].index >= 0 /\ RangeEnd(live[i]) <= allocator.numDescriptors
    /\ \A i, j \in 1..Len(live) :
          i # j => RangeEnd(live[i]) <= live[j].index \/ RangeEnd(live[j]) <= live[i].index

\* C5: when AllocateDescriptors grows a heap, every index below the old
\* capacity keeps its occupancy flag and its descriptor, in the CPU heap and
\* in the shader-visible heap, and the old heap still exists when it is
\* copied from.
C5_GrowthPreservesContents ==
    [][(lastAlloc'.grew /\ HandlesValid(allocator)) =>
          /\ lastAlloc'.srcAlive
          /\ \A i \in 1..allocator.numDescriptors :
                /\ allocator'.allocatedDescriptors[i] = allocator.allocatedDescriptors[i]
                /\ allocator'.descriptors[i] = allocator.descriptors[i]
                /\ allocator.shaderVisible =>
                      allocator'.shaderVisibleDescriptors[i] =
                          allocator.shaderVisibleDescriptors[i]]_vars

(***************************************************************************)
(* Bind group updates: the properties.                                     *)
(***************************************************************************)
\* the slots of a vector of ranges: range number and index in the range
RangeSlots(ranges) ==
    UNION {{<<r, i>> : i \in 0..(ranges[r].NumDescriptors - 1)} : r \in 1..Len(ranges)}

SlotBinding(ranges, s) == ranges[s[1]].BaseShaderRegister + s[2]

\* the heap index Update computes for a slot of the table at base
SlotDescriptor(base, ranges, s) ==
    base + ranges[s[1]].OffsetInDescriptorsFromTableStart + s[2]

\* what a heap holds at an index
Descriptor(heap, d) ==
    IF d < Len(heap.descriptors) THEN heap.descriptors[d + 1] ELSE "outside"

ShaderVisibleDescriptor(heap, d) ==
    IF d < Len(heap.shaderVisibleDescriptors)
    THEN heap.shaderVisibleDescriptors[d + 1] ELSE "outside"

NoEntryAt(binding) == \A k \in 1..Len(bindEntries) : bindEntries[k].binding # binding

\* the view of a buffer a slot of a range type is expected to hold
ExpectedView(rangeType, buffer) ==
    CASE rangeType = "CBV" -> ConstantBufferView(buffer)
      [] rangeType = "SRV" -> IF buffer = "buffer1" THEN "srv_buffer1" ELSE "srv_buffer2"
      [] OTHER -> IF buffer = "buffer1" THEN "uav_buffer1" ELSE "uav_buffer2"

\* C8: after Update every slot of every range whose binding no entry names
\* holds a null descriptor (CBV/SRV/UAV table) or the default sampler
\* (sampler table), and no descriptor of the two allocated tables is left
\* unwritten, in the CPU heap and in the shader-visible heap.
C8_UnboundSlotsHoldNull ==
    bindGroup.exists =>
        /\ \A s \in RangeSlots(bindGroupLayout.cbvUavSrvDescriptorRanges) :
              NoEntryAt(SlotBinding(bindGroupLayout.cbvUavSrvDescriptorRanges, s)) =>
                  Descriptor(shaderResourceViewHeap,
                             SlotDescriptor(bindGroup.descriptorTableCbvUavSrv,
                                            bindGroupLayout.cbvUavSrvDescriptorRanges, s))
                      \in {"null_cbv", "null_srv", "null_uav"}
        /\ \A s \in RangeSlots(bindGroupLayout.samplerDescriptorRanges) :
              NoEntryAt(SlotBinding(bindGroupLayout.samplerDescriptorRanges, s)) =>
                  Descriptor(samplerHeap,
                             SlotDescriptor(bindGroup.descriptorTableSamplers,
                                            bindGroupLayout.samplerDescriptorRanges, s))
                      = "default_sampler"
        /\ \A i \in 0..(bindGroupLayout.descriptorTableSizeCbvUavSrv - 1) :
              LET d == bindGroup.descriptorTableCbvUavSrv + i
              IN  /\ Descriptor(shaderResourceViewHeap, d) \notin {"uninit", "outside"}
                  /\ ShaderVisibleDescriptor(shaderResourceViewHeap, d)
                         \notin {"uninit", "outside"}
        /\ \A i \in 0..(bindGroupLayout.descriptorTableSizeSamplers - 1) :
              LET d == bindGroup.descriptorTableSamplers + i
              IN  /\ Descriptor(samplerHeap, d) \notin {"uninit", "outside"}
                  /\ ShaderVisibleDescriptor(samplerHeap, d) \notin {"uninit", "outside"}

\* C9: after Update every slot of every CBV/SRV/UAV range whose binding an
\* entry names with a buffer holds the view of that buffer, whatever the
\* order of the entries and the type of the range.
C9_MatchingResourceWritten ==
    bindGroup.exists =>
        \A s \in RangeSlots(bindGroupLayout.cbvUavSrvDescriptorRanges) :
            \A k \in 1..Len(bindEntries) :
                (/\ bindEntries[k].binding =
                        SlotBinding(bindGroupLayout.cbvUavSrvDescriptorRanges, s)
                 /\ bindEntries[k].buffer # "null") =>
                    Descriptor(shaderResourceViewHeap,
                               SlotDescriptor(bindGroup.descriptorTableCbvUavSrv,
                                              bindGroupLayout.cbvUavSrvDescriptorRanges, s))
                        = ExpectedView(bindGroupLayout.cbvUavSrvDescriptorRanges[s[1]].RangeType,
                                       bindEntries[k].buffer)

\* C10: after Update every slot of every sampler range whose binding an
\* entry names with a sampler holds that sampler, for each of the sampler
\* entries of the update.
C10_MatchingSamplerWritten ==
    bindGroup.exists =>
        \A s \in RangeSlots(bindGroupLayout.samplerDescriptorRanges) :
            \A k \in 1..Len(bindEntries) :
                (/\ bindEntries[k].binding =
                        SlotBinding(bindGroupLayout.samplerDescriptorRanges, s)
                 /\ bindEntries[k].sampler # "null") =>
                    Descriptor(samplerHeap,
                               SlotDescriptor(bindGroup.descriptorTableSamplers,
                                              bindGroupLayout.samplerDescriptorRanges, s))
                        = SamplerView(bindEntries[k].sampler)

(***************************************************************************)
(* The descriptor allocator: release, reuse and growth.                    *)
(***************************************************************************)
\* every descriptor of a range reads as free; the flag of a descriptor past
\* the end of the occupancy vector reads as anything
RangeFree(a, baseIndex, count) ==
    \A i \in baseIndex..(baseIndex + count - 1) :
        \A oob \in BOOLEAN : ~Flag(a, i, oob)

\* C11: after ReleaseDescriptors(idx, n) of a range a caller holds the slots
\* idx..idx+n-1 are free and searchStart is not above idx; the next
\* AllocateDescriptors(n) does not grow the heap and returns a range that
\* starts at or below idx.
C11_ReleasedRangeReusable ==
    /\ lastAlloc.op = "release" =>
          /\ allocator.searchStart <= lastAlloc.index
          /\ RangeFree(allocator, lastAlloc.index, lastAlloc.count)
    /\ (lastAlloc.op = "allocate" /\ lastAlloc.afterRelease >= 0) =>
          /\ lastAlloc.index <= lastAlloc.afterRelease
          /\ ~lastAlloc.grew

IsPowerOfTwo(n) == n >= 1 /\ vgpuNextPowerOfTwo(n) = n

Range(list) == {list[i] : i \in 1..Len(list)}

Ids(list) == {list[i].id : i \in 1..Len(list)}

\* the context an UploadAllocate step gave to its caller
HandedOut ==
    CHOOSE c \in Range(uploadHeld') :
        Cardinality({i \in 1..Len(uploadHeld') : uploadHeld'[i] = c}) >
            Cardinality({i \in 1..Len(uploadHeld) : uploadHeld[i] = c})

\* the copy last submitted with a context has completed
CopyCompleted(context) ==
    <<context.id, context.fenceValueSignaled>> \in uploadCopied

\* no context is with two callers, or with a caller and in the free list or
\* on the upload queue
HeldByOne ==
    /\ \A i, j \in 1..Len(uploadHeld) : i # j => uploadHeld[i].id # uploadHeld[j].id
    /\ Ids(uploadHeld) \cap Ids(uploadFreeList) = {}
    /\ Ids(uploadHeld) \cap {c.id : c \in uploadSubmitting} = {}
    /\ Ids(uploadHeld) \cap Ids(uploadCommandQueue) = {}

\* an UploadAllocate(size) that took its context from the free list took
\* one that is large enough and whose copy has completed
HandOutChecked ==
    \A size \in UploadSizes :
        (D3D12Device_UploadAllocate(size) /\ HandedOut.id \in Ids(uploadFreeList)) =>
            /\ HandedOut \in Range(uploadFreeList)
            /\ HandedOut.uploadBufferSize >= size
            /\ CopyCompleted(HandedOut)

\* C13: UploadAllocate(size) hands out a context of the free list only if
\* its staging buffer holds size bytes and the copy last submitted with it
\* has completed; a context whose copy is in flight is never handed out, and
\* no context is held by two callers at once.
C13_HandedOutOnlyWhenCompleted == []HeldByOne /\ [][HandOutChecked]_vars

\* a caller holds a context that was used before, while the free list has a
\* context whose copy is still in flight
C13_Witness ==
    /\ \E i \in 1..Len(uploadHeld) : uploadHeld[i].fenceValueSignaled >= 1
    /\ \E j \in 1..Len(uploadFreeList) : ~CopyCompleted(uploadFreeList[j])

\* while a copy whose UploadSubmit has returned is not completed, each of
\* the three queues has the Wait for it ahead of whatever is submitted next
WaitsAhead ==
    \A k \in 1..Len(uploadCommandQueue) : \A q \in Queues :
        \E n \in 1..Len(gpuQueues[q]) : gpuQueues[q][n] = uploadCommandQueue[k]

\* UploadSubmit returns without a copy having completed meanwhile, and with
\* its own copy still to run
SubmitReturnsAtOnce ==
    \A context \in uploadSubmitting :
        D3D12Device_UploadSubmit_Execute(context) =>
            /\ uploadCopied' = uploadCopied
            /\ ~CopyCompleted(context)
            /\ [id |-> context.id, value |-> context.fenceValueSignaled]
                   \in Range(uploadCommandQueue')

\* C14: after UploadSubmit(context) has returned, nothing submitted later to
\* the graphics, compute or copy queue runs before the copy has completed,
\* and UploadSubmit does not wait for the copy.
C14_QueuesWaitForCopy == []WaitsAhead /\ [][SubmitReturnsAtOnce]_vars

\* UploadSubmit has returned, the copy has not run, every queue waits
C14_Witness ==
    /\ uploadCommandQueue # <<>>
    /\ uploadSubmitting = {}
    /\ \A q \in Queues : Head(uploadCommandQueue) \in Range(gpuQueues[q])

\* an UploadAllocate(size) that finds in the free list a context that is
\* large enough and whose copy has completed takes one from the free list
\* and creates nothing
ReuseBeforeCreate ==
    \A size \in UploadSizes :
        (/\ D3D12Device_UploadAllocate(size)
         /\ \E j \in 1..Len(uploadFreeList) :
               /\ uploadFreeList[j].uploadBufferSize >= size
               /\ CopyCompleted(uploadFreeList[j])) =>
            /\ uploadCreated' = uploadCreated
            /\ HandedOut.id \in Ids(uploadFreeList)
            /\ Len(uploadFreeList') = Len(uploadFreeList) - 1

\* C15: UploadAllocate(size) reuses a context of the free list whenever one
\* has a staging buffer of size bytes or more and a signaled fence, and then
\* creates no staging buffer; no staging buffer is released before the
\* device shuts down.
C15_StagingBuffersReused ==
    /\ [](~uploadShutDown => uploadReleased = {})
    /\ [](uploadReleased \subseteq 1..uploadCreated)
    /\ [][ReuseBeforeCreate]_vars

\* two allocations were served by one staging buffer
C15_Witness ==
    /\ uploadCreated = 1
    /\ ~uploadShutDown
    /\ \E i \in 1..Len(uploadHeld) : uploadHeld[i].fenceValueSignaled >= 1

(***************************************************************************)
(* The swapchain: tickets of Submit, resize, device loss.                  *)
(***************************************************************************)
\* a Submit call has just returned
Returned == tickets.value # -1

\* C16, as stated: over any sequence of Submit calls each call returns a
\* value greater than the value every earlier Submit call returned.
C16_TicketsIncrease ==
    (Returned /\ tickets.maxBefore # -1) => tickets.value > tickets.maxBefore

\* C16, amended: a Submit that completes returns frameCount - 1, which is
\* greater than the value every earlier completed Submit returned; a Submit
\* that fails (Close failed, or Present reported the device removed or
\* reset) returns 0.
C16_CompletedTicketsIncrease ==
    /\ (Returned /\ tickets.ok) =>
          /\ tickets.value = frameCount - 1
          /\ tickets.value > tickets.maxOkBefore
    /\ (Returned /\ ~tickets.ok) => tickets.value = 0

\* a second Submit has completed, after a first that completed too
C16_Witness == Returned /\ tickets.ok /\ tickets.maxOkBefore # -1

\* the native call of the last acquire reported no failure
NativeSucceeded == lastAcquire.native \in {"S_OK", "VK_SUCCESS", "VK_SUBOPTIMAL_KHR"}

\* C17: if the client size of the window differs from the size of the
\* swapchain when AcquireSwapchainTexture is called and the native call
\* succeeds, the texture returned reports the new client width and height
\* and the recorded size and backbuffer list of the swapchain are those of
\* the new size.
C17_ResizedTextureReported ==
    (lastAcquire.op = "acquire" /\ lastAcquire.differed /\ NativeSucceeded) =>
        /\ lastAcquire.returned # 0
        /\ textures[lastAcquire.returned].state = "alive"
        /\ textures[lastAcquire.returned].width = lastAcquire.client[1]
        /\ textures[lastAcquire.returned].height = lastAcquire.client[2]
        /\ swapChain.width = lastAcquire.client[1]
        /\ swapChain.height = lastAcquire.client[2]
        /\ swapChain.backbufferTextures = <<lastAcquire.returned>>

\* the wrappers the swapchain holds
Backbuffers == {swapChain.backbufferTextures[i] : i \in 1..Len(swapChain.backbufferTextures)}

\* C18: a swapchain resize does not leak the previous backbuffers: every
\* wrapper the swapchain no longer holds is freed, with its native handle on
\* the deferred queue or released, and no wrapper is freed while a reference
\* other than the one its owner gives up is still counted.
C18_OldBackbuffersFreed ==
    \A k \in Handles :
        /\ (swapChain.alive /\ textures[k].state # "none" /\ k \notin Backbuffers) =>
              /\ textures[k].state = "freed"
              /\ res[k].st \in {"queued", "released"}
        /\ textures[k].state = "freed" =>
              textures[k].refCount = (IF textures[k].freedBy = "delete" THEN 1 ELSE 0)

\* the last acquire resized and ResizeBuffers reported the device lost: null
\* is returned, the backbuffer list stays empty and the recorded size is
\* not updated
AcquireLost ==
    (lastAcquire.op = "acquire" /\ lastAcquire.native \in DeviceLost) =>
        /\ lastAcquire.returned = 0
        /\ swapChain.backbufferTextures = <<>>
        /\ <<swapChain.width, swapChain.height>> # lastAcquire.client

\* a Submit whose Present reports the device lost returns 0 at once: the
\* frame counter does not advance and nothing is waited for or rebuilt
SubmitLost ==
    \A present \in DeviceLost :
        D3D12Device_Submit("S_OK", present) =>
            /\ tickets'.value = 0
            /\ pc' = "idle"
            /\ frameCount' = frameCount
            /\ <<swapChain, textures>>' = <<swapChain, textures>>

BelowCapacity == numBarriersToFlush < BarrierCapacity

\* a TransitionResource that buffers the sixteenth barrier hands the batch of
\* 16 to the native command list and leaves the count at 0
FlushedAtCapacity ==
    \A resource \in BarrierResources, newState \in ResourceStates :
        (/\ D3D12CommandBuffer_TransitionResource(resource, newState, FALSE)
         /\ numBarriersToFlush = BarrierCapacity - 1
         /\ (resourceState[resource] # newState \/ newState = "UNORDERED_ACCESS"))
        => (lastFlush' = BarrierCapacity /\ numBarriersToFlush' = 0)

\* C20: for any sequence of TransitionResource calls (InsertUAVBarrier is
\* called by TransitionResource only) the number of buffered barriers never
\* exceeds 16; when it reaches 16 the batch is flushed to the native command
\* list and the count returns to 0.
C20_BarriersCapped == []BelowCapacity /\ [][FlushedAtCapacity]_vars

\* a batch of 16 was flushed because the capacity was reached
C20_Witness == lastFlush = BarrierCapacity /\ numBarriersToFlush = 0

\* C21: no draw or dispatch is recorded into the native command list while
\* the command buffer holds buffered, unflushed barriers.
C21_NoDrawOverPendingBarriers ==
    lastCommand \in {"DrawInstanced", "Dispatch"} => numBarriersToFlush = 0

\* a dispatch recorded right after a transition whose barrier was flushed
C21_Witness ==
    /\ lastCommand = "Dispatch"
    /\ \E resource \in BarrierResources : resourceState[resource] # "PRESENT"

(***************************************************************************)
(* Destruction while the device shuts down.                                *)
(***************************************************************************)
\* once the device shuts down the deferred queues are empty and stay empty
NothingQueuedInShutdown ==
    shuttingDown => (deferredReleases = <<>> /\ deferredAllocations = <<>>)

\* a handle destroyed while the device shuts down is released, and its
\* allocation if it has one, when the destroy call returns
ReleasedInsideDestroy ==
    \A h \in Handles :
        (shuttingDown /\ res[h].st # "live") =>
            /\ res[h].st = "released"
            /\ res[h].n = 1
            /\ res[h].alloc \in {"none", "released"}
            /\ res[h].an = (IF res[h].alloc = "released" THEN 1 ELSE 0)

\* C22: if the device is already shutting down when a resource is
\* destroyed, the native handle and its allocation are released inside the
\* destroy call and nothing is appended to a deferred-destruction queue.
C22_SynchronousInShutdown == NothingQueuedInShutdown /\ ReleasedInsideDestroy

\* a handle with its allocation was destroyed while the device shut down
C22_Witness ==
    \E h \in Handles : res[h].by = "sync" /\ res[h].alloc = "released" /\ shuttingDown

(***************************************************************************)
(* The descriptor allocator when a growth fails.                           *)
(***************************************************************************)
\* an AllocateDescriptors call has just returned kInvalidDescriptorIndex
GrowthFailed == lastAlloc.op = "allocate" /\ lastAlloc.index = kInvalidDescriptorIndex

\* the call that fails marks no slot and counts no descriptor
FailedGrowthMarksNothing ==
    GrowthFailed' =>
        /\ allocator'.allocatedDescriptors = allocator.allocatedDescriptors
        /\ allocator'.numAllocatedDescriptors = allocator.numAllocatedDescriptors
        /\ live' = live

\* C23: if growing the descriptor heap fails, AllocateDescriptors returns
\* the invalid index, marks no slot as occupied and does not change the
\* count of allocated descriptors.
C23_FailedGrowthReturnsInvalid == [][FailedGrowthMarksNothing]_vars

\* a growth has failed while descriptors were allocated
C23_Witness == GrowthFailed /\ allocator.numAllocatedDescriptors > 0

(***************************************************************************)
(* The command allocator of a frame slot.                                  *)
(***************************************************************************)
\* Submit has returned and the device is in use: BeginCommandBuffer can be
\* called, and its Begin(frameIndex) resets commandAllocators[frameIndex]
BeginCommandBufferCallable ==
    backend = "d3d12" /\ pc = "idle" /\ ~shuttingDown /\ lastOp = "pdq"

\* C27: the command allocator of frame slot i is reset in Begin only after
\* the GPU has completed the last submission recorded with slot i, the one
\* made MAX_INFLIGHT_FRAMES submissions before the next one.
C27_AllocatorResetAfterGpuDone ==
    BeginCommandBufferCallable =>
        \A q \in Queues : gpuDone[q] >= frameCount - MAX_INFLIGHT_FRAMES + 1


(***************************************************************************)
(* Threads on one descriptor allocator: the properties.                    *)
(***************************************************************************)
\* C24: every operation of a descriptor allocator runs under the mutex of
\* the allocator, so a call of GetCpuHandle or CopyToShaderVisibleHeap never
\* runs while another thread is inside an allocation or a growth, and the
\* start handle it uses is the one of the heap the allocator holds, which
\* has the capacity the allocator reports.
C24_NoReadInsideGrowth ==
    lastRead.op # "none" =>
        /\ lastRead.holder \in {0, lastRead.thread}
        /\ lastRead.handle = lastRead.heap
        /\ lastRead.capacity = lastRead.numDescriptors


(***************************************************************************)
(* Destruction from several threads: the properties.                       *)
(***************************************************************************)
\* the number of entries of a queue that name the handle h
Entries(q, h) == Cardinality({i \in 1..Len(q) : q[i].h = h})

\* a thread is between lock() and unlock() only while it holds the mutex
QueuesTouchedUnderMutex ==
    \A t \in Threads :
        destroyThread[t].pc \notin {"idle", "lock", "pdq_lock"} => destroyMutex = t

\* a handle is in its queue once and not released, or out of it and
\* released once; before its DeferDestroy has pushed it, it is neither
ReleasedExactlyOnce ==
    \A h \in Handles :
        /\ Entries(deferredReleases, h) = (IF res[h].st = "queued" THEN 1 ELSE 0)
        /\ res[h].n = (IF res[h].st = "released" THEN 1 ELSE 0)
        /\ Entries(deferredAllocations, h) = (IF res[h].alloc = "queued" THEN 1 ELSE 0)
        /\ res[h].an = (IF res[h].alloc = "released" THEN 1 ELSE 0)

\* C25: with resources destroyed on several threads and ProcessDeletionQueue
\* running between them, every access to the deferred-destruction queues is
\* made by the thread that holds the destroy mutex, and every handle that
\* was queued is released once: none is lost, none released twice.
C25_QueuesUnderDestroyMutex == QueuesTouchedUnderMutex /\ ReleasedExactlyOnce

\* ProcessDeletionQueue has released one handle and is still inside its
\* loops while another thread waits at the lock of DeferDestroy
C25_Witness ==
    /\ destroyThread[FrameThread].pc \in {"pdq_allocations", "pdq_releases"}
    /\ \E h \in Handles : res[h].alloc = "released" /\ res[h].by = "none"
    /\ \E t \in Threads : destroyThread[t].pc = "lock"


(***************************************************************************)
(* The pool of command buffers: the properties.                            *)
(***************************************************************************)
\* C26: when threads call BeginCommandBuffer at the same time, each call
\* returns the command buffer it created or took from the pool and put
\* into recording state, and no two of these calls return the same buffer.
C26_ConcurrentCallsReturnOwnBuffer ==
    \A i \in 1..Len(handedOut) :
        handedOut[i].overlapped =>
            /\ handedOut[i].returned = handedOut[i].commandBuffer
            /\ \A j \in 1..Len(handedOut) :
                   (j # i /\ handedOut[j].overlapped) =>
                       handedOut[j].returned # handedOut[i].returned

\* C29: two BeginCommandBuffer calls with no Submit between them, made one
\* after the other, return different command buffers, and the buffer a
\* call resets is not one that is recording.
C29_DistinctBuffersBetweenSubmits ==
    \A i \in 1..Len(handedOut) :
        ~handedOut[i].overlapped =>
            /\ ~handedOut[i].wasRecording
            /\ \A j \in 1..Len(handedOut) :
                   (j # i /\ ~handedOut[j].overlapped) =>
                       handedOut[j].returned # handedOut[i].returned


(***************************************************************************)
(* Descriptor tables and the GPU: the properties.                          *)
(***************************************************************************)
\* C28: a range of descriptors that a bind group released is handed out by
\* AllocateDescriptors only when no submission that reads a descriptor of
\* the range is still executing.
C28_NoReuseWhileGpuReads ==
    (lastAlloc.op = "allocate" /\ lastAlloc.index # kInvalidDescriptorIndex) =>
        \A i \in 1..Len(gpuReading) :
            ~Overlap(gpuReading[i], [index |-> lastAlloc.index, count |-> lastAlloc.count])


\* the number of descriptors of a heap that are marked allocated
Occupied(heap) ==
    Cardinality({i \in 1..Len(heap.allocatedDescriptors) : heap.allocatedDescriptors[i]})

\* C30: when a bind group is destroyed both of its descriptor tables are
\* released and their index ranges marked free, whatever their base index:
\* with no bind group alive, neither allocator holds an occupied slot.
C30_DestroyedTablesReleased ==
    ~bindGroup.exists =>
        /\ Occupied(shaderResourceViewHeap) = 0
        /\ shaderResourceViewHeap.numAllocatedDescriptors = 0
        /\ Occupied(samplerHeap) = 0
        /\ samplerHeap.numAllocatedDescriptors = 0


\* the sum of the descriptor counts of the first n ranges of a vector
RECURSIVE CountBefore(_, _)
CountBefore(ranges, n) ==
    IF n = 0 THEN 0 ELSE CountBefore(ranges, n - 1) + ranges[n].NumDescriptors

\* the total of a family is the sum of the counts of its ranges and every
\* range starts where the ranges before it end
FamilyConsistent(ranges, total) ==
    /\ total = CountBefore(ranges, Len(ranges))
    /\ \A r \in 1..Len(ranges) :
           ranges[r].OffsetInDescriptorsFromTableStart = CountBefore(ranges, r - 1)

\* every slot of every range lies inside the table of total descriptors
SlotsInsideTable(ranges, total) ==
    \A s \in RangeSlots(ranges) : SlotDescriptor(0, ranges, s) < total

\* C31: in every bind group layout, for the CBV/SRV/UAV family and for the
\* sampler family, the recorded table size is the sum of the descriptor
\* counts of the ranges and the offset of each range is the sum of the
\* counts of the ranges before it, whatever the count of an entry is; so
\* every descriptor Update writes lies inside the table it allocated.
C31_TableSizesAreSums ==
    bindGroupLayout.exists =>
        /\ FamilyConsistent(bindGroupLayout.cbvUavSrvDescriptorRanges,
                            bindGroupLayout.descriptorTableSizeCbvUavSrv)
        /\ FamilyConsistent(bindGroupLayout.samplerDescriptorRanges,
                            bindGroupLayout.descriptorTableSizeSamplers)
        /\ SlotsInsideTable(bindGroupLayout.cbvUavSrvDescriptorRanges,
                            bindGroupLayout.descriptorTableSizeCbvUavSrv)
        /\ SlotsInsideTable(bindGroupLayout.samplerDescriptorRanges,
                            bindGroupLayout.descriptorTableSizeSamplers)

\* the frame numbers of a queue do not decrease from its front to its back
FramesNonDecreasing(q) ==
    \A i \in 1..Len(q) : \A j \in 1..Len(q) : i < j => q[i].frame <= q[j].frame

\* the deferred-destruction queues of the device
DeletionQueues ==
    {deferredReleases, deferredAllocations} \cup {destroyed[k] : k \in VkKindSet}

\* no entry of any queue passes the test of the loops at the frame counter fc
NothingEligibleLeft(fc) ==
    \A q \in DeletionQueues :
        \A i \in 1..Len(q) : ~(q[i].frame + MAX_INFLIGHT_FRAMES < fc)

\* C32: in each deferred-destruction queue the recorded frame numbers are
\* non-decreasing from front to back, and when ProcessDeletionQueue has
\* returned no entry left in any queue has frame + MAX_INFLIGHT_FRAMES below
\* the frame counter it ran with (at shutdown the counter is the sentinel and
\* every queue is left empty).
C32_NothingEligibleLeftBehind ==
    /\ \A q \in DeletionQueues : FramesNonDecreasing(q)
    /\ lastOp = "pdq" => NothingEligibleLeft(frameCount)
    /\ lastOp = "shutdown" => NothingEligibleLeft(UINT64_MAX)

\* ProcessDeletionQueue has just released a handle and stopped in front of
\* an entry of a later frame
C32_Witness ==
    /\ lastOp = "pdq"
    /\ \E h \in Handles : res[h].st = "released" /\ res[h].by = "pdq" /\ res[h].rf = frameCount
    /\ \E q \in DeletionQueues : q # <<>> /\ q[1].frame + MAX_INFLIGHT_FRAMES >= frameCount

\* a step that is an AllocateDescriptors whose growth failed leaves the
\* allocator as it was before the call
FailedGrowthChangesNothing == GrowthFailed' => allocator' = allocator

\* C33: an AllocateDescriptors whose heap growth fails leaves the allocator
\* as it was before the call: the same heaps, the same capacity, the same
\* occupancy and the same descriptors.
C33_FailedGrowthLeavesAllocator == [][FailedGrowthChangesNothing]_vars

\* count consecutive descriptors of the heap are free, wherever they lie
HasFreeRun(a, count) ==
    \E b \in 0..(Len(a.allocatedDescriptors) - count) :
        \A i \in b..(b + count - 1) : ~a.allocatedDescriptors[i + 1]

\* a step that is an AllocateDescriptors which grew the heap, or tried to,
\* started from a heap without a free run of the count asked for
GrowsOnlyWhenFull ==
    (lastAlloc'.op = "allocate" /\ (lastAlloc'.grew \/ GrowthFailed')) =>
        ~HasFreeRun(allocator, lastAlloc'.count)

\* C34: AllocateDescriptors(count) grows the heap only when no run of count
\* consecutive free descriptors exists anywhere in the heap, whatever
\* AllocateDescriptors and ReleaseDescriptors calls came before and wherever
\* the run lies relative to searchStart.
C34_GrowsOnlyWhenNoFreeRun == [][GrowsOnlyWhenFull]_vars

(***************************************************************************)
(* The scan of AllocateDescriptors on a heap large enough for a free run   *)
(* to lie in front of searchStart.  Every heap creation succeeds.          *)
(***************************************************************************)
\* the capacity the heap is created with
ScanInitCapacity == 4
\* largest heap capacity explored
MaxScanCapacity == 8

\* a caller asks for count descriptors
Scan_AllocateDescriptors(count) ==
    LET r == D3D12DescriptorAllocator_AllocateDescriptors(allocator, count, "ok", TRUE, FALSE)
    IN  /\ Len(live) < MaxLive
        /\ r.a.numDescriptors <= MaxScanCapacity
        /\ allocator' = r.a
        /\ live' = InsertRange(live, [index |-> r.index, count |-> count])
        /\ lastAlloc' = [NoAlloc EXCEPT !.op = "allocate", !.index = r.index,
                                        !.count = count, !.grew = r.grew]
        /\ UNCHANGED otherThanAlloc

ScanInit ==
    /\ allocator = D3D12DescriptorAllocator_Init(FALSE, ScanInitCapacity)
    /\ live = <<>>
    /\ lastAlloc = NoAlloc

ScanNext ==
    \/ \E count \in 1..MaxCount : Scan_AllocateDescriptors(count)
    \/ \E k \in 1..MaxLive : Alloc_ReleaseDescriptors(k)

SpecScanInit == ScanInit /\ DeviceParked /\ BindParked /\ UploadInit /\ PresentParked /\ BarrierInit /\ ThreadsParked

SpecScan == SpecScanInit /\ [][ScanNext]_vars

\* the command lists staged in the pending lists of the queues
Staged == UNION {{submitCommandLists[q][i] : i \in 1..Len(submitCommandLists[q])} : q \in Queues}

\* C35: when Submit has returned 0 because a Close() failed or the device
\* was lost, no command list of that call is left in the pending list of
\* any queue.
C35_FailedSubmitStagesNothing ==
    lastSubmit.failed => Staged \cap lastSubmit.lists = {}

\* queue q still has the Wait for value v of the fence of context c in front of it
WaitPending(q, c, v) == [id |-> c, value |-> v] \in Range(gpuQueues[q])

\* C36: every Wait that UploadSubmit has put into the graphics, compute or
\* copy queue is eventually passed once the copy it waits for has completed,
\* also when UploadAllocate has handed the context out again and reset its
\* fence before the queue reached the Wait: no Wait whose copy has
\* completed stays in front of its queue for ever.
C36_WaitsEventuallyPassed ==
    \A q \in Queues : \A c \in 1..MaxFairContexts : \A v \in 1..MaxFairUses :
        []<>~(WaitPending(q, c, v) /\ <<c, v>> \in uploadCopied)

\* the copy has completed, the context was handed out again and its fence
\* reset, and a queue has not reached its Wait yet
C36_Witness ==
    \E q \in Queues : \E c \in ContextIds : \E v \in 1..MaxFairUses :
        /\ WaitPending(q, c, v) /\ <<c, v>> \in uploadCopied
        /\ uploadFence[c] < v
        /\ \E k \in 1..Len(uploadHeld) : uploadHeld[k].id = c

\* C37: every reference the command buffer took on a pipeline or bind group
\* in SetPipeline or SetBindGroup is released by the next Reset: after the
\* Reset every reference count is what it was before the first of those
\* calls, also when several pipelines were set or a group index was bound
\* again.
C37_ResetReleasesEveryReference ==
    lastRefOp = "reset" => refCount = refBefore

\* the last call was an AcquireSwapchainTexture that got as far as
\* backbufferTextures[index] without resizing
IndexedWithoutResize ==
    /\ lastAcquire.op = "acquire"
    /\ lastAcquire.client # <<0, 0>>
    /\ lastAcquire.native \notin ResizeOutcomes

\* C38: AcquireSwapchainTexture returns null or a live backbuffer wrapper
\* of the swapchain's current list: it never indexes an empty list and
\* never returns a wrapper that was destroyed, whatever resizes, failed
\* resizes and minimized windows came before.
C38_AcquireReturnsLiveBackbuffer ==
    /\ IndexedWithoutResize => swapChain.backbufferTextures # <<>>
    /\ (lastAcquire.op = "acquire" /\ lastAcquire.returned # 0) =>
          /\ \E i \in 1..Len(swapChain.backbufferTextures) :
                 swapChain.backbufferTextures[i] = lastAcquire.returned
          /\ textures[lastAcquire.returned].state = "alive"

\* the native handles of the backbuffers whose wrappers the resize deleted
DeletedBackbuffers == {k \in Handles : textures[k].freedBy = "delete"}

\* C39: when the sizes differ AcquireSwapchainTexture waits for the GPU,
\* destroys the old wrappers, resizes the native swapchain and queries the
\* new backbuffers, and when ResizeBuffers is called no native handle of an
\* old backbuffer is held any more, neither by a wrapper nor by an entry of
\* a deferred-destruction queue.
C39_NoOldBackbufferAtResize ==
    (lastAcquire.op = "acquire" /\ lastAcquire.native \in ResizeOutcomes) =>
        /\ \A k \in DeletedBackbuffers : textures[k].state = "freed"
        /\ DeletedBackbuffers \cap EntryHandles(deferredReleases) = {}

\* C40: isSupported has the semantics of a thread-safe one-time
\* initialization: the probe runs at most once in the process, and every
\* call, also one made while the first is still probing, returns the
\* result of that one probe.
C40_ProbedOnceSameResult ==
    /\ probeRuns <= 1
    /\ \A t \in Threads : probeThread[t].pc = "returned" => probeThread[t].ret = probeSupported

====
